---- MODULE Spec2Model ----
(***************************************************************************)
(* Token lifecycle, account lockout, authorization gate and role store of  *)
(* the auth-microservice.  Time is counted in ticks of 1/TicksPerSec       *)
(* second: Date.now() is the tick counter, a JWT issued-at is the tick     *)
(* counter truncated to whole seconds.                                     *)
(***************************************************************************)
EXTENDS Integers, Sequences, FiniteSets, TLC

VARIABLES
  now,          \* Date.now(), in ticks
  advances,     \* number of clock advances taken so far
  users,        \* User collection: _id -> document
  nextUserId,   \* next fresh User _id
  tokens,       \* Token collection: set of refresh-token documents
  accessTokens, \* access tokens held by clients (never persisted)
  roles,        \* Role collection: _id -> document
  nextRoleId,   \* next fresh Role _id
  resetSeq,     \* number of password-reset tokens generated so far
  used,         \* history: raw reset token -> number of passwords it replaced
  inflight,     \* resetPassword requests between their find and their save
  pending,      \* register, OAuth and login requests between find and write
  oauthLinks,   \* OAuthProvider collection: the (user, provider) links
  purged,       \* history: the strings of the Token records deleted so far
  sysName,      \* history: role _id -> the name it was persisted with as a
                \* system role
  lastOp,       \* the last request handled and its response
  stale,        \* history: access tokens minted before a later password write
  streak,       \* history: consecutive failed logins since the account was fresh
  loggedOut     \* history: refresh tokens whose owner completed a logout with them

vars == <<now, advances, users, nextUserId, tokens, accessTokens, roles,
          nextRoleId, resetSeq, used, inflight, pending, oauthLinks, purged,
          sysName, lastOp, stale, streak, loggedOut>>

authVars == <<now, advances, users, nextUserId, tokens, accessTokens,
              resetSeq, used, inflight, pending, oauthLinks, purged, stale,
              streak, loggedOut>>

----------------------------------------------------------------------------
(* Bounds of the model *)

TicksPerSec == 2
MaxAdvances == 2
MaxUsers == 2
MaxTokens == 2
MaxAccess == 2
MaxAttempts == 6
MaxResets == 2
RevokeResets == 1
MaxRoles == 7
RoleCap == 6
MaxPerms == 2
MaxInflight == 2
MaxPending == 2
MaxLinked == 3
MaxNonce == 1

(* Program constants, in seconds *)

LockSeconds == 7200
RefreshSeconds == 604800
AccessSeconds == 900
ResetSeconds == 3600
VerifySeconds == 86400
MaxLoginAttempts == 5
RevokedRetentionSeconds == 2592000

LockTime == LockSeconds * TicksPerSec
RefreshTTL == RefreshSeconds * TicksPerSec
ResetTTL == ResetSeconds * TicksPerSec
VerifyTTL == VerifySeconds * TicksPerSec
RevokedRetention == RevokedRetentionSeconds * TicksPerSec

NoDate == -1
NoId == 0
NoTok == <<0, 0>>
NoHash == <<"none", 0>>

EmailInputs == {"a@x.com", "A@X.com", "b@x.com"}
Passwords == {"pw1", "pw2"}

----------------------------------------------------------------------------
(* Conversions and lookups *)

\* String.prototype.toLowerCase on the e-mail inputs of the model
ToLower(e) == IF e = "A@X.com" THEN "a@x.com" ELSE e

\* bcrypt.hash in the password pre-save hook
BcryptHash(p) == <<"bcrypt", p>>

\* comparePassword: bcrypt.compare(candidate, this.password)
ComparePassword(u, candidate) == u.password = BcryptHash(candidate)

\* bcrypt.compare rejects when the stored hash is not a string (a user created
\* by an OAuth callback has no password field); comparePassword rethrows it
ComparePasswordThrows(u) == u.password = NoHash

\* crypto.createHash("sha256").update(token).digest("hex")
Sha256(raw) == <<"sha256", raw>>

\* jsonwebtoken stamps iat in whole seconds
IatOf(t) == t \div TicksPerSec

\* jwt.sign of the access-token payload; mintedAt is the instant of the
\* call, kept for the history only (the token carries iat, not mintedAt)
GenerateAccessToken(uid, t) == [uid |-> uid, iat |-> IatOf(t), mintedAt |-> t]

\* jwt.sign({userId}): the signed string is a function of (userId, iat)
GenerateRefreshToken(uid, t) == <<uid, IatOf(t)>>

BadAccess == [uid |-> 0, iat |-> 0, mintedAt |-> 0]

\* jwt.verify: "ok", "expired" or "invalid"
VerifyAccessToken(a, t) ==
  IF a = BadAccess THEN "invalid"
  ELSE IF IatOf(t) >= a.iat + AccessSeconds THEN "expired"
  ELSE "ok"

\* virtual isAccountLocked
IsAccountLockedMutant(u, t) ==
  u.isLocked /\ u.lockUntil # NoDate /\ u.lockUntil < t
IsAccountLocked(u, t) ==
  u.isLocked /\ u.lockUntil # NoDate /\ u.lockUntil > t

\* User.findOne({ email })
FindUserByEmail(em) ==
  IF \E id \in DOMAIN users : users[id].email = em
  THEN CHOOSE id \in DOMAIN users : users[id].email = em
  ELSE NoId

\* Token.findActiveToken
FindActiveTokenMutant(T, tokStr, t) ==
  {tk \in T : tk.token = tokStr /\ tk.expiresAt > t}
FindActiveToken(T, tokStr, t) ==
  {tk \in T : tk.token = tokStr /\ ~tk.isRevoked /\ tk.expiresAt > t}

\* Token.revokeUserTokens
RevokeUserTokensMutant(T, uid, reason, t) ==
  {IF tk.user = uid /\ tk.isRevoked
   THEN [tk EXCEPT !.isRevoked = TRUE, !.revokedAt = t, !.revokedReason = reason]
   ELSE tk : tk \in T}
RevokeUserTokensEveryone(T, uid, reason, t) ==
  {IF ~tk.isRevoked
   THEN [tk EXCEPT !.isRevoked = TRUE, !.revokedAt = t, !.revokedReason = reason]
   ELSE tk : tk \in T}
RevokeUserTokens(T, uid, reason, t) ==
  {IF tk.user = uid /\ ~tk.isRevoked
   THEN [tk EXCEPT !.isRevoked = TRUE, !.revokedAt = t, !.revokedReason = reason]
   ELSE tk : tk \in T}

\* token.revokeToken on one document
RevokeTokenMutant(T, tk, reason, t) ==
  (T \ {tk}) \cup {[tk EXCEPT !.revokedAt = t, !.revokedReason = reason]}
RevokeTokenToggle(T, tk, reason, t) ==
  (T \ {tk}) \cup
  {[tk EXCEPT !.isRevoked = ~@, !.revokedAt = t, !.revokedReason = reason]}
RevokeToken(T, tk, reason, t) ==
  (T \ {tk}) \cup
  {[tk EXCEPT !.isRevoked = TRUE, !.revokedAt = t, !.revokedReason = reason]}

\* token.updateLastUsed on one document
UpdateLastUsedMutant(T, tk, t) ==
  (T \ {tk}) \cup
  {[tk EXCEPT !.lastUsedAt = t, !.isRevoked = TRUE, !.revokedAt = t,
              !.revokedReason = "Rotated"]}
UpdateLastUsed(T, tk, t) ==
  (T \ {tk}) \cup {[tk EXCEPT !.lastUsedAt = t]}

\* Token.create of a refresh-token document
NewTokenDoc(uid, tokStr, t) ==
  [user |-> uid, token |-> tokStr, expiresAt |-> t + RefreshTTL,
   isRevoked |-> FALSE, revokedAt |-> NoDate, revokedReason |-> "",
   lastUsedAt |-> t]

\* a token is valid iff not revoked and not expired
IsValid(tk, t) == ~tk.isRevoked /\ tk.expiresAt > t

\* incrementLoginAttempts
IncrementLoginAttemptsLate(u, t) ==
  IF u.lockUntil # NoDate /\ u.lockUntil < t
  THEN [u EXCEPT !.loginAttempts = 1, !.isLocked = FALSE, !.lockUntil = NoDate]
  ELSE IF u.loginAttempts >= MaxLoginAttempts /\ ~u.isLocked
  THEN [u EXCEPT !.loginAttempts = @ + 1, !.isLocked = TRUE,
                 !.lockUntil = t + LockTime]
  ELSE [u EXCEPT !.loginAttempts = @ + 1]
IncrementLoginAttemptsNoReset(u, t) ==
  IF u.loginAttempts + 1 >= MaxLoginAttempts /\ ~u.isLocked
  THEN [u EXCEPT !.loginAttempts = @ + 1, !.isLocked = TRUE,
                 !.lockUntil = t + LockTime]
  ELSE [u EXCEPT !.loginAttempts = @ + 1]
IncrementLoginAttempts(u, t) ==
  IF u.lockUntil # NoDate /\ u.lockUntil < t
  THEN [u EXCEPT !.loginAttempts = 1, !.isLocked = FALSE, !.lockUntil = NoDate]
  ELSE IF u.loginAttempts + 1 >= MaxLoginAttempts /\ ~u.isLocked
  THEN [u EXCEPT !.loginAttempts = @ + 1, !.isLocked = TRUE,
                 !.lockUntil = t + LockTime]
  ELSE [u EXCEPT !.loginAttempts = @ + 1]

\* resetLoginAttempts
ResetLoginAttempts(u) ==
  [u EXCEPT !.loginAttempts = 0, !.isLocked = FALSE, !.lockUntil = NoDate]

\* the password pre-save hook: hash, then stamp lastPasswordChange
SetPasswordMutant(u, p, t) == [u EXCEPT !.password = BcryptHash(p)]
SetPassword(u, p, t) ==
  [u EXCEPT !.password = BcryptHash(p), !.lastPasswordChange = t]

\* the last request and its response: the handler, the e-mail, identity,
\* refresh token and access token involved, the HTTP status and error, whether
\* the password was compared (pwEval), and the request's password (pw) and
\* permission (resource, action) where it has one
Resp(op, email, uid, tok, acc, status, err, pwEval) ==
  [op |-> op, email |-> email, uid |-> uid, tok |-> tok, acc |-> acc,
   status |-> status, err |-> err, pwEval |-> pwEval,
   pw |-> "", resource |-> "", action |-> "", rid |-> NoId, msg |-> "",
   raw |-> 0, force |-> FALSE, mail |-> "none", provider |-> ""]

\* the access tokens clients hold once acc is minted (the first MaxAccess)
TrackSets(acc) ==
  IF Cardinality(accessTokens) < MaxAccess
  THEN {accessTokens \cup {acc}} ELSE {accessTokens}

\* an account in its freshly created lockout state
Fresh(u) ==
  u.isActive /\ u.loginAttempts = 0 /\ ~u.isLocked /\ u.lockUntil = NoDate

\* history: access tokens of uid minted strictly before a password write at t
StaleAfterWrite(uid, t) ==
  stale \cup {a \in accessTokens : a.uid = uid /\ a.mintedAt < t}

----------------------------------------------------------------------------
(* The canonical roles of Role.initializeDefaultRoles *)

P(resource, actions) == [resource |-> resource, actions |-> actions]

DefaultRoles ==
  << [name |-> "superadmin", level |-> 10, isSystem |-> TRUE,
      permissions |->
        << P("users", <<"manage">>), P("roles", <<"manage">>),
           P("posts", <<"manage">>), P("comments", <<"manage">>),
           P("settings", <<"manage">>), P("analytics", <<"manage">>),
           P("reports", <<"manage">>), P("files", <<"manage">>),
           P("notifications", <<"manage">>), P("logs", <<"manage">>) >>],
     [name |-> "admin", level |-> 8, isSystem |-> TRUE,
      permissions |->
        << P("users", <<"create", "read", "update", "delete">>),
           P("roles", <<"read">>), P("posts", <<"manage">>),
           P("comments", <<"manage">>), P("settings", <<"read", "update">>),
           P("analytics", <<"read">>), P("reports", <<"read">>),
           P("files", <<"manage">>) >>],
     [name |-> "moderator", level |-> 5, isSystem |-> TRUE,
      permissions |->
        << P("users", <<"read", "update">>),
           P("posts", <<"read", "update", "delete">>),
           P("comments", <<"read", "update", "delete">>),
           P("files", <<"read", "update", "delete">>) >>],
     [name |-> "user", level |-> 3, isSystem |-> TRUE,
      permissions |->
        << P("posts", <<"create", "read", "update">>),
           P("comments", <<"create", "read", "update">>),
           P("files", <<"create", "read", "update">>) >>],
     [name |-> "guest", level |-> 1, isSystem |-> TRUE,
      permissions |->
        << P("posts", <<"read">>), P("comments", <<"read">>) >>] >>

\* Role.create(roleData): schema defaults isActive = true
RoleDoc(d) ==
  [name |-> d.name, level |-> d.level, isSystem |-> d.isSystem,
   isActive |-> TRUE, permissions |-> d.permissions]

\* Role.findOne({ name })
FindRoleByName(R, name) ==
  IF \E id \in DOMAIN R : R[id].name = name
  THEN CHOOSE id \in DOMAIN R : R[id].name = name
  ELSE NoId

----------------------------------------------------------------------------
(* Initial state: the database after the role bootstrap, with no users *)

\* the raw reset tokens crypto.randomBytes hands out, in order of generation
RawTokens == 1..MaxResets

NoResp == Resp("none", "", NoId, NoTok, BadAccess, 0, "", FALSE)

Init ==
  /\ now = 0
  /\ advances = 0
  /\ users = << >>
  /\ nextUserId = 1
  /\ tokens = {}
  /\ accessTokens = {}
  /\ roles = [i \in 1..Len(DefaultRoles) |-> RoleDoc(DefaultRoles[i])]
  /\ nextRoleId = Len(DefaultRoles) + 1
  /\ resetSeq = 0
  /\ used = [raw \in RawTokens |-> 0]
  /\ inflight = << >>
  /\ purged = {}
  /\ oauthLinks = {}
  /\ pending = << >>
  /\ sysName = [i \in 1..Len(DefaultRoles) |-> DefaultRoles[i].name]
  /\ lastOp = NoResp
  /\ stale = {}
  /\ streak = << >>
  /\ loggedOut = {}

----------------------------------------------------------------------------
(* The clock *)

Tick(d) ==
  /\ advances < MaxAdvances
  /\ now' = now + d
  /\ advances' = advances + 1
  /\ lastOp' = Resp("tick", "", NoId, NoTok, BadAccess, 0, "", FALSE)
  /\ UNCHANGED <<pending, oauthLinks, sysName, used, inflight, purged,
                 users, nextUserId, tokens, accessTokens, roles, nextRoleId,
                 resetSeq, stale, streak, loggedOut>>

----------------------------------------------------------------------------
(* authService *)

\* the document registerUser has stored once generateEmailVerificationToken
\* is saved; the random bytes of that first token are written 0
NewUser(em, p, rid, t) ==
  [email |-> em, password |-> BcryptHash(p), role |-> rid,
   isActive |-> TRUE, isLocked |-> FALSE, lockUntil |-> NoDate,
   loginAttempts |-> 0, lastPasswordChange |-> t,
   passwordResetToken |-> NoHash, passwordResetExpires |-> NoDate,
   provider |-> "local", oauthProviders |-> << >>,
   isEmailVerified |-> FALSE, emailVerificationToken |-> Sha256(0),
   emailVerificationExpires |-> t + VerifyTTL]

\* the document handleOAuthCallback creates: no password, so the password
\* pre-save hook hashes nothing and leaves lastPasswordChange at its default
OAuthUser(em, provider, rid, t) ==
  [NewUser(em, "", rid, t) EXCEPT !.password = NoHash, !.provider = provider,
                                  !.oauthProviders = <<provider>>,
                                  !.isEmailVerified = TRUE,
                                  !.emailVerificationToken = NoHash,
                                  !.emailVerificationExpires = NoDate]

\* registerUser
Register(e, p) ==
  LET em == ToLower(e)
      rid == FindRoleByName(roles, "user")
      uid == nextUserId
      acc == GenerateAccessToken(uid, now)
      rt == GenerateRefreshToken(uid, now)
  IN /\ UNCHANGED <<pending, oauthLinks, sysName, used, inflight, purged,
                    now, advances, roles, nextRoleId, resetSeq, stale, loggedOut>>
     /\ IF FindUserByEmail(em) # NoId
        THEN /\ lastOp' = Resp("register", em, NoId, NoTok, BadAccess, 400,
                               "email_registered", FALSE)
             /\ UNCHANGED <<users, nextUserId, tokens, accessTokens, streak>>
        ELSE IF rid = NoId
        THEN /\ lastOp' = Resp("register", em, NoId, NoTok, BadAccess, 500,
                               "no_default_role", FALSE)
             /\ UNCHANGED <<users, nextUserId, tokens, accessTokens, streak>>
        ELSE /\ nextUserId <= MaxUsers
             /\ Cardinality(tokens) < MaxTokens
             /\ users' = [id \in DOMAIN users \cup {uid} |->
                            IF id = uid THEN NewUser(em, p, rid, now) ELSE users[id]]
             /\ streak' = [id \in DOMAIN users \cup {uid} |->
                            IF id = uid THEN 0 ELSE streak[id]]
             /\ nextUserId' = nextUserId + 1
             /\ tokens' = tokens \cup {NewTokenDoc(uid, rt, now)}
             /\ accessTokens' \in TrackSets(acc)
             /\ lastOp' = Resp("register", em, uid, rt, acc, 201, "", FALSE)

\* the AppError loginUser throws in each refusing case; the lock message
\* also carries the lockUntil date
LoginErrorMutant(c) ==
  CASE c = "no_user" ->
         [status |-> 404, err |-> "no_user", msg |-> "User not found"]
    [] c = "wrong_password" ->
         [status |-> 401, err |-> "invalid_credentials",
          msg |-> "Invalid email or password"]
    [] c = "locked" ->
         [status |-> 403, err |-> "locked", msg |-> "Account is locked until"]
    [] c = "inactive" ->
         [status |-> 403, err |-> "inactive",
          msg |-> "Account has been deactivated"]
LoginError(c) ==
  CASE c \in {"no_user", "wrong_password"} ->
         [status |-> 401, err |-> "invalid_credentials",
          msg |-> "Invalid email or password"]
    [] c = "locked" ->
         [status |-> 403, err |-> "locked", msg |-> "Account is locked until"]
    [] c = "inactive" ->
         [status |-> 403, err |-> "inactive",
          msg |-> "Account has been deactivated"]

\* loginUser
Login(e, p) ==
  LET em == ToLower(e)
      uid == FindUserByEmail(em)
      R(r) == [r EXCEPT !.pw = p]
      E(c, id, pwEval) ==
        [R(Resp("login", em, id, NoTok, BadAccess, LoginError(c).status,
                LoginError(c).err, pwEval)) EXCEPT !.msg = LoginError(c).msg]
  IN /\ UNCHANGED <<pending, oauthLinks, sysName, used, inflight, purged,
                    now, advances, nextUserId, roles, nextRoleId, resetSeq,
                    stale, loggedOut>>
     /\ IF uid = NoId
        THEN /\ lastOp' = E("no_user", NoId, FALSE)
             /\ UNCHANGED <<users, tokens, accessTokens, streak>>
        ELSE IF IsAccountLocked(users[uid], now)
        THEN /\ lastOp' = E("locked", uid, FALSE)
             /\ UNCHANGED <<users, tokens, accessTokens, streak>>
        ELSE IF ~users[uid].isActive
        THEN /\ lastOp' = E("inactive", uid, FALSE)
             /\ UNCHANGED <<users, tokens, accessTokens, streak>>
        ELSE IF ComparePasswordThrows(users[uid])
        THEN /\ lastOp' = [R(Resp("login", em, uid, NoTok, BadAccess, 500,
                                  "compare_failed", TRUE))
                             EXCEPT !.msg = "Password comparison failed"]
             /\ UNCHANGED <<users, tokens, accessTokens, streak>>
        ELSE IF ~ComparePassword(users[uid], p)
        THEN /\ users[uid].loginAttempts < MaxAttempts
             /\ users' = [users EXCEPT ![uid] = IncrementLoginAttempts(@, now)]
             /\ streak' = [streak EXCEPT ![uid] =
                             IF @ > 0 \/ Fresh(users[uid]) THEN @ + 1 ELSE 0]
             /\ lastOp' = E("wrong_password", uid, TRUE)
             /\ UNCHANGED <<tokens, accessTokens>>
        ELSE LET acc == GenerateAccessToken(uid, now)
                 rt == GenerateRefreshToken(uid, now)
             IN /\ users' = [users EXCEPT ![uid] = ResetLoginAttempts(@)]
                /\ streak' = [streak EXCEPT ![uid] = 0]
                /\ IF \E tk \in tokens : tk.token = rt
                   THEN \* unique index on token: Token.create throws
                        /\ lastOp' = R(Resp("login", em, uid, NoTok, BadAccess,
                                          500, "duplicate_key", TRUE))
                        /\ UNCHANGED <<tokens, accessTokens>>
                   ELSE /\ Cardinality(tokens) < MaxTokens
                        /\ tokens' = tokens \cup {NewTokenDoc(uid, rt, now)}
                        /\ accessTokens' \in TrackSets(acc)
                        /\ lastOp' = R(Resp("login", em, uid, rt, acc, 200, "", TRUE))

UnknownTok == <<0, 1>>
TokenInputs == {tk.token : tk \in tokens} \cup {UnknownTok}

\* Token.findOne({user: userId, token}) of logoutUser and
\* Token.findOne({_id, user: userId}) of revokeSession: the records of uid
\* that the request names
FindOwnTokenMutant(T, uid, tok) == {tk \in T : tk.token = tok}
FindOwnToken(T, uid, tok) == {tk \in T : tk.user = uid /\ tk.token = tok}

\* logoutUser
Logout(uid, tok) ==
  /\ UNCHANGED <<pending, oauthLinks, sysName, used, inflight, purged,
                 now, advances, users, nextUserId, accessTokens, roles,
                 nextRoleId, resetSeq, stale, streak>>
  /\ lastOp' = Resp("logout", "", uid, tok, BadAccess, 200, "", FALSE)
  /\ IF tok # NoTok
     THEN LET found == FindOwnToken(tokens, uid, tok)
          IN IF found # {}
             THEN /\ tokens' = RevokeToken(tokens, CHOOSE tk \in found : TRUE,
                                           "User logout", now)
                  /\ loggedOut' = loggedOut \cup {tok}
             ELSE UNCHANGED <<tokens, loggedOut>>
     ELSE /\ tokens' = RevokeUserTokens(tokens, uid, "User logout all sessions", now)
          /\ UNCHANGED loggedOut

\* refreshAccessToken
Refresh(tok) ==
  LET found == FindActiveToken(tokens, tok, now)
  IN /\ UNCHANGED <<pending, oauthLinks, sysName, used, inflight, purged,
                    now, advances, users, nextUserId, roles, nextRoleId,
                    resetSeq, stale, streak, loggedOut>>
     /\ IF found = {}
        THEN /\ lastOp' = Resp("refresh", "", NoId, tok, BadAccess, 401,
                               "invalid_refresh", FALSE)
             /\ UNCHANGED <<tokens, accessTokens>>
        ELSE LET tk == CHOOSE x \in found : TRUE
                 uid == tk.user
                 acc == GenerateAccessToken(uid, now)
             IN /\ tokens' = UpdateLastUsed(tokens, tk, now)
                /\ IF uid \notin DOMAIN users
                   THEN /\ lastOp' = Resp("refresh", "", uid, tok, BadAccess,
                                          404, "no_user", FALSE)
                        /\ UNCHANGED accessTokens
                   ELSE IF ~users[uid].isActive
                   THEN /\ lastOp' = Resp("refresh", "", uid, tok, BadAccess,
                                          403, "inactive", FALSE)
                        /\ UNCHANGED accessTokens
                   ELSE /\ accessTokens' \in TrackSets(acc)
                        /\ lastOp' = Resp("refresh", "", uid, tok, acc, 200,
                                          "", FALSE)

\* changePassword
ChangePassword(uid, cur, new) ==
  /\ UNCHANGED <<pending, oauthLinks, sysName, used, inflight, purged,
                 now, advances, nextUserId, accessTokens, roles, nextRoleId,
                 resetSeq, streak, loggedOut>>
  /\ IF uid \notin DOMAIN users
     THEN /\ lastOp' = Resp("changePassword", "", uid, NoTok, BadAccess, 404,
                            "no_user", FALSE)
          /\ UNCHANGED <<users, tokens, stale>>
     ELSE IF ComparePasswordThrows(users[uid])
     THEN /\ lastOp' = Resp("changePassword", "", uid, NoTok, BadAccess, 500,
                            "compare_failed", TRUE)
          /\ UNCHANGED <<users, tokens, stale>>
     ELSE IF ~ComparePassword(users[uid], cur)
     THEN /\ lastOp' = Resp("changePassword", "", uid, NoTok, BadAccess, 401,
                            "wrong_password", TRUE)
          /\ UNCHANGED <<users, tokens, stale>>
     ELSE /\ users' = [users EXCEPT ![uid] = SetPassword(@, new, now)]
          /\ tokens' = RevokeUserTokens(tokens, uid, "Password changed", now)
          /\ stale' = StaleAfterWrite(uid, now)
          /\ lastOp' = Resp("changePassword", "", uid, NoTok, BadAccess, 200,
                            "", TRUE)

----------------------------------------------------------------------------
(* passwordController *)

\* forgotPassword; mailOk is the outcome of emailService.sendPasswordResetEmail
ForgotPassword(e, mailOk) ==
  LET em == ToLower(e)
      uid == FindUserByEmail(em)
      raw == resetSeq + 1
      R(r, msg) == [r EXCEPT !.msg = msg, !.raw = IF uid = NoId THEN 0 ELSE raw]
  IN /\ UNCHANGED <<pending, oauthLinks, sysName, used, inflight, purged,
                    now, advances, nextUserId, tokens, accessTokens, roles,
                    nextRoleId, stale, streak, loggedOut>>
     /\ IF uid = NoId
        THEN /\ lastOp' = R(Resp("forgotPassword", em, NoId, NoTok, BadAccess,
                                 200, "", FALSE),
                            "If account exists, reset link sent.")
             /\ UNCHANGED <<users, resetSeq>>
        ELSE /\ resetSeq < MaxResets
             /\ resetSeq' = raw
             /\ IF mailOk
                THEN /\ users' = [users EXCEPT
                                    ![uid].passwordResetToken = Sha256(raw),
                                    ![uid].passwordResetExpires = now + ResetTTL]
                     /\ lastOp' = [R(Resp("forgotPassword", em, uid, NoTok,
                                          BadAccess, 200, "", FALSE),
                                     "Reset link sent")
                                  EXCEPT !.mail = "sent"]
                ELSE /\ users' = [users EXCEPT
                                    ![uid].passwordResetToken = NoHash,
                                    ![uid].passwordResetExpires = NoDate]
                     /\ lastOp' = [R(Resp("forgotPassword", em, uid, NoTok,
                                          BadAccess, 500, "email_failed",
                                          FALSE),
                                     "Email send failed. Try again later.")
                                  EXCEPT !.mail = "failed"]

\* User.findByPasswordResetToken
FindByPasswordResetTokenMutant(raw, t) ==
  {id \in DOMAIN users : users[id].passwordResetToken = Sha256(raw)}
FindByPasswordResetToken(raw, t) ==
  {id \in DOMAIN users : /\ users[id].passwordResetToken = Sha256(raw)
                         /\ users[id].passwordResetExpires > t}

\* resetPassword
ResetPassword(raw, new) ==
  LET found == FindByPasswordResetToken(raw, now)
  IN /\ UNCHANGED <<pending, oauthLinks, sysName, inflight, purged,
                    now, advances, nextUserId, accessTokens, roles, nextRoleId,
                    resetSeq, streak, loggedOut>>
     /\ IF found = {}
        THEN /\ lastOp' = [Resp("resetPassword", "", NoId, NoTok, BadAccess,
                                400, "invalid_reset_token", FALSE)
                             EXCEPT !.raw = raw]
             /\ UNCHANGED <<users, tokens, stale, used>>
        ELSE LET uid == CHOOSE id \in found : TRUE
             IN /\ users' = [users EXCEPT ![uid] =
                               [SetPassword(@, new, now) EXCEPT
                                  !.passwordResetToken = NoHash,
                                  !.passwordResetExpires = NoDate]]
                /\ tokens' = RevokeUserTokens(tokens, uid, "Password reset", now)
                /\ stale' = StaleAfterWrite(uid, now)
                /\ used' = [used EXCEPT ![raw] = @ + 1]
                /\ lastOp' = [Resp("resetPassword", "", uid, NoTok, BadAccess,
                                   200, "", FALSE) EXCEPT !.raw = raw]

\* resetPassword up to the answer of User.findByPasswordResetToken: the
\* request then waits for user.save() in the first free slot of inflight
ResetFind(raw, new) ==
  LET found == FindByPasswordResetToken(raw, now)
      free == (1..MaxInflight) \ DOMAIN inflight
  IN /\ UNCHANGED <<pending, oauthLinks, sysName, now, advances, users, nextUserId, tokens, accessTokens,
                    roles, nextRoleId, resetSeq, used, purged, stale, streak,
                    loggedOut>>
     /\ IF found = {}
        THEN /\ lastOp' = [Resp("resetPassword", "", NoId, NoTok, BadAccess,
                                400, "invalid_reset_token", FALSE)
                             EXCEPT !.raw = raw]
             /\ UNCHANGED inflight
        ELSE LET uid == CHOOSE id \in found : TRUE
                 r == CHOOSE x \in free : \A y \in free : x <= y
             IN /\ free # {}
                /\ inflight' = [x \in DOMAIN inflight \cup {r} |->
                                  IF x = r
                                  THEN [uid |-> uid, raw |-> raw, new |-> new]
                                  ELSE inflight[x]]
                /\ lastOp' = [Resp("resetFind", "", uid, NoTok, BadAccess, 0,
                                   "", FALSE) EXCEPT !.raw = raw]

\* resetPassword from user.save() of the document request r loaded to its
\* response: the save writes the paths the request modified
ResetSave(r) ==
  /\ r \in DOMAIN inflight
  /\ LET q == inflight[r]
         uid == q.uid
     IN /\ UNCHANGED <<pending, oauthLinks, sysName, now, advances, nextUserId, accessTokens, roles,
                       nextRoleId, resetSeq, purged, streak, loggedOut>>
        /\ inflight' = [x \in DOMAIN inflight \ {r} |-> inflight[x]]
        /\ IF uid \notin DOMAIN users
           THEN \* the document was deleted meanwhile: save throws
                /\ lastOp' = [Resp("resetPassword", "", uid, NoTok, BadAccess,
                                   500, "no_document", FALSE)
                                EXCEPT !.raw = q.raw]
                /\ UNCHANGED <<users, tokens, stale, used>>
           ELSE /\ users' = [users EXCEPT ![uid] =
                               [SetPassword(@, q.new, now) EXCEPT
                                  !.passwordResetToken = NoHash,
                                  !.passwordResetExpires = NoDate]]
                /\ tokens' = RevokeUserTokens(tokens, uid, "Password reset", now)
                /\ stale' = StaleAfterWrite(uid, now)
                /\ used' = [used EXCEPT ![q.raw] = @ + 1]
                /\ lastOp' = [Resp("resetPassword", "", uid, NoTok, BadAccess,
                                   200, "", FALSE) EXCEPT !.raw = q.raw]

----------------------------------------------------------------------------
(* Session revocation and token maintenance *)

\* authService.revokeSession; a session is named by its Token document, which
\* the unique index on token lets the model name by the token string
RevokeSession(uid, tok) ==
  LET found == FindOwnToken(tokens, uid, tok)
  IN /\ UNCHANGED <<pending, oauthLinks, sysName, now, advances, users, nextUserId, accessTokens, roles,
                    nextRoleId, resetSeq, used, inflight, purged, stale,
                    streak, loggedOut>>
     /\ IF found = {}
        THEN /\ lastOp' = Resp("revokeSession", "", uid, tok, BadAccess, 404,
                               "no_session", FALSE)
             /\ UNCHANGED tokens
        ELSE /\ tokens' = RevokeToken(tokens, CHOOSE tk \in found : TRUE,
                                      "User manually revoked session", now)
             /\ lastOp' = Resp("revokeSession", "", uid, tok, BadAccess, 200,
                               "", FALSE)

\* tokenService.revokeToken
TokenServiceRevokeToken(tok) ==
  LET found == {tk \in tokens : tk.token = tok}
  IN /\ UNCHANGED <<pending, oauthLinks, sysName, now, advances, users, nextUserId, accessTokens, roles,
                    nextRoleId, resetSeq, used, inflight, purged, stale,
                    streak, loggedOut>>
     /\ IF found = {}
        THEN /\ lastOp' = Resp("revokeToken", "", NoId, tok, BadAccess, 404,
                               "no_token", FALSE)
             /\ UNCHANGED tokens
        ELSE /\ tokens' = RevokeToken(tokens, CHOOSE tk \in found : TRUE,
                                      "Manual revocation", now)
             /\ lastOp' = Resp("revokeToken", "", NoId, tok, BadAccess, 200,
                               "", FALSE)

\* tokenService.revokeAllUserTokens
RevokeAllUserTokens(uid) ==
  /\ UNCHANGED <<pending, oauthLinks, sysName, now, advances, users, nextUserId, accessTokens, roles,
                 nextRoleId, resetSeq, used, inflight, purged, stale, streak,
                 loggedOut>>
  /\ tokens' = RevokeUserTokens(tokens, uid, "Revoke all", now)
  /\ lastOp' = Resp("revokeAll", "", uid, NoTok, BadAccess, 200, "", FALSE)

\* deleteMany of the Token documents in gone; the response carries
\* deletedCount
DeleteTokens(gone, op) ==
  /\ UNCHANGED <<pending, oauthLinks, sysName, now, advances, users, nextUserId, accessTokens, roles,
                 nextRoleId, resetSeq, used, inflight, stale, streak,
                 loggedOut>>
  /\ tokens' = tokens \ gone
  /\ purged' = purged \cup {tk.token : tk \in gone}
  /\ lastOp' = [Resp(op, "", NoId, NoTok, BadAccess, 200, "", FALSE)
                  EXCEPT !.raw = Cardinality(gone)]

\* Token.cleanExpiredTokens
CleanExpiredTokens ==
  DeleteTokens({tk \in tokens : tk.expiresAt < now}, "cleanExpiredTokens")

\* Token.cleanRevokedTokens
CleanRevokedTokensMutant ==
  DeleteTokens({tk \in tokens : tk.revokedAt < now - RevokedRetention},
               "cleanRevokedTokens")
CleanRevokedTokens ==
  DeleteTokens({tk \in tokens : tk.isRevoked /\ tk.revokedAt # NoDate
                                  /\ tk.revokedAt < now - RevokedRetention},
               "cleanRevokedTokens")

\* the TTL index on expiresAt (expireAfterSeconds: 0): the server's monitor
\* deletes the documents whose expiresAt has passed
TtlExpire ==
  DeleteTokens({tk \in tokens : tk.expiresAt <= now}, "ttlExpire")

----------------------------------------------------------------------------
(* userService *)

\* the roles the model hands to updateUserRole
RoleChoices ==
  {r \in DOMAIN roles : roles[r].name \in {"user", "admin"} \/ ~roles[r].isSystem}
  \cup {NoId}

\* updateUserRole
UpdateUserRole(uid, rid) ==
  /\ UNCHANGED <<pending, oauthLinks, sysName, used, inflight, purged,
                 now, advances, nextUserId, accessTokens, roles, nextRoleId,
                 resetSeq, stale, streak, loggedOut>>
  /\ IF uid \notin DOMAIN users
     THEN /\ lastOp' = Resp("updateUserRole", "", uid, NoTok, BadAccess, 404,
                            "no_user", FALSE)
          /\ UNCHANGED <<users, tokens>>
     ELSE IF rid \notin DOMAIN roles
     THEN /\ lastOp' = Resp("updateUserRole", "", uid, NoTok, BadAccess, 404,
                            "no_role", FALSE)
          /\ UNCHANGED <<users, tokens>>
     ELSE /\ users' = [users EXCEPT ![uid].role = rid]
          /\ tokens' = RevokeUserTokens(tokens, uid, "Role changed", now)
          /\ lastOp' = Resp("updateUserRole", "", uid, NoTok, BadAccess, 200,
                            "", FALSE)

\* activateUserAccount
ActivateUserAccount(uid) ==
  /\ UNCHANGED <<pending, oauthLinks, sysName, used, inflight, purged,
                 now, advances, nextUserId, tokens, accessTokens, roles,
                 nextRoleId, resetSeq, stale, loggedOut>>
  /\ IF uid \notin DOMAIN users
     THEN /\ lastOp' = Resp("activate", "", uid, NoTok, BadAccess, 404,
                            "no_user", FALSE)
          /\ UNCHANGED <<users, streak>>
     ELSE /\ users' = [users EXCEPT ![uid].isActive = TRUE,
                                    ![uid].isLocked = FALSE,
                                    ![uid].lockUntil = NoDate]
          /\ streak' = [streak EXCEPT ![uid] = 0]
          /\ lastOp' = Resp("activate", "", uid, NoTok, BadAccess, 200, "", FALSE)

\* deactivateUserAccount
DeactivateUserAccount(uid) ==
  /\ UNCHANGED <<pending, oauthLinks, sysName, used, inflight, purged,
                 now, advances, nextUserId, accessTokens, roles, nextRoleId,
                 resetSeq, stale, loggedOut>>
  /\ IF uid \notin DOMAIN users
     THEN /\ lastOp' = Resp("deactivate", "", uid, NoTok, BadAccess, 404,
                            "no_user", FALSE)
          /\ UNCHANGED <<users, tokens, streak>>
     ELSE /\ users' = [users EXCEPT ![uid].isActive = FALSE]
          /\ tokens' = RevokeUserTokens(tokens, uid, "Account deactivated", now)
          /\ streak' = [streak EXCEPT ![uid] = 0]
          /\ lastOp' = Resp("deactivate", "", uid, NoTok, BadAccess, 200, "", FALSE)

\* deleteUserAccount
DeleteUserAccount(uid) ==
  /\ UNCHANGED <<pending, oauthLinks, sysName, used, inflight, purged,
                 now, advances, nextUserId, accessTokens, roles, nextRoleId,
                 resetSeq, stale, loggedOut>>
  /\ IF uid \notin DOMAIN users
     THEN /\ lastOp' = Resp("deleteUser", "", uid, NoTok, BadAccess, 404,
                            "no_user", FALSE)
          /\ UNCHANGED <<users, tokens, streak>>
     ELSE /\ tokens' = RevokeUserTokens(tokens, uid, "Account deleted", now)
          /\ users' = [id \in DOMAIN users \ {uid} |-> users[id]]
          /\ streak' = [id \in DOMAIN users \ {uid} |-> streak[id]]
          /\ lastOp' = Resp("deleteUser", "", uid, NoTok, BadAccess, 200, "", FALSE)

----------------------------------------------------------------------------
(* authMiddleware: the Gate *)

\* the outcome of authenticate for access token a at time t:
\* <<status, error, attached identity>>
GateMutant(a, t) ==
  IF VerifyAccessToken(a, t) = "expired" THEN <<401, "expired", NoId>>
  ELSE IF VerifyAccessToken(a, t) = "invalid" THEN <<401, "invalid", NoId>>
  ELSE IF a.uid \notin DOMAIN users THEN <<401, "no_user", NoId>>
  ELSE IF ~users[a.uid].isActive THEN <<403, "inactive", NoId>>
  ELSE IF users[a.uid].lastPasswordChange > a.iat * TicksPerSec
       THEN <<401, "password_changed", NoId>>
  ELSE <<200, "", a.uid>>
Gate(a, t) ==
  IF VerifyAccessToken(a, t) = "expired" THEN <<401, "expired", NoId>>
  ELSE IF VerifyAccessToken(a, t) = "invalid" THEN <<401, "invalid", NoId>>
  ELSE IF a.uid \notin DOMAIN users THEN <<401, "no_user", NoId>>
  ELSE IF ~users[a.uid].isActive THEN <<403, "inactive", NoId>>
  ELSE IF IsAccountLocked(users[a.uid], t) THEN <<403, "locked", NoId>>
  ELSE IF users[a.uid].lastPasswordChange > a.iat * TicksPerSec
       THEN <<401, "password_changed", NoId>>
  ELSE <<200, "", a.uid>>

\* authenticate
Authenticate(a) ==
  LET g == Gate(a, now)
  IN /\ lastOp' = Resp("authenticate", "", g[3], NoTok, a, g[1], g[2], FALSE)
     /\ UNCHANGED <<pending, oauthLinks, sysName, used, inflight, purged,
                    now, advances, users, nextUserId, tokens, accessTokens,
                    roles, nextRoleId, resetSeq, stale, streak, loggedOut>>

----------------------------------------------------------------------------
(* Role model *)

Range(q) == {q[i] : i \in DOMAIN q}

\* permissions.find((p) => p.resource === resource): the index of the first
\* entry for the resource, NoId when there is none
FindPermission(perms, resource) ==
  IF \E i \in DOMAIN perms : perms[i].resource = resource
  THEN CHOOSE i \in DOMAIN perms :
         /\ perms[i].resource = resource
         /\ \A j \in 1..(i - 1) : perms[j].resource # resource
  ELSE NoId

\* role.hasPermission
HasPermission(role, resource, action) ==
  LET i == FindPermission(role.permissions, resource)
  IN IF i = NoId THEN FALSE
     ELSE \/ action \in Range(role.permissions[i].actions)
          \/ "manage" \in Range(role.permissions[i].actions)

\* role.addPermission
AddPermission(role, resource, action) ==
  LET i == FindPermission(role.permissions, resource)
  IN IF i # NoId
     THEN IF action \in Range(role.permissions[i].actions)
          THEN role
          ELSE [role EXCEPT !.permissions[i].actions = Append(@, action)]
     ELSE [role EXCEPT !.permissions = Append(@, P(resource, <<action>>))]

\* role.removePermission
RemovePermission(role, resource, action) ==
  LET i == FindPermission(role.permissions, resource)
  IN IF i = NoId THEN role
     ELSE LET acts == SelectSeq(role.permissions[i].actions,
                                LAMBDA a : a # action)
          IN IF Len(acts) = 0
             THEN [role EXCEPT !.permissions =
                     SelectSeq(@, LAMBDA p : p.resource # resource)]
             ELSE [role EXCEPT !.permissions[i].actions = acts]

\* Role.initializeDefaultRoles: create the missing canonical roles, reset the
\* permissions of the system ones; <<roles, next _id>> after entries i.. are done
RECURSIVE InitRolesMutant(_, _, _)
InitRolesMutant(R, nid, i) ==
  IF i > Len(DefaultRoles) THEN <<R, nid>>
  ELSE LET d == DefaultRoles[i]
           ex == FindRoleByName(R, d.name)
       IN IF ex = NoId
          THEN InitRolesMutant([id \in DOMAIN R \cup {nid} |->
                                  IF id = nid THEN RoleDoc(d) ELSE R[id]],
                               nid + 1, i + 1)
          ELSE InitRolesMutant([R EXCEPT ![ex].permissions = d.permissions],
                               nid, i + 1)
RECURSIVE InitRoles(_, _, _)
InitRoles(R, nid, i) ==
  IF i > Len(DefaultRoles) THEN <<R, nid>>
  ELSE LET d == DefaultRoles[i]
           ex == FindRoleByName(R, d.name)
       IN IF ex = NoId
          THEN InitRoles([id \in DOMAIN R \cup {nid} |->
                            IF id = nid THEN RoleDoc(d) ELSE R[id]],
                         nid + 1, i + 1)
          ELSE IF R[ex].isSystem
          THEN InitRoles([R EXCEPT ![ex].permissions = d.permissions], nid, i + 1)
          ELSE InitRoles(R, nid, i + 1)

----------------------------------------------------------------------------
(* roleService *)

ModelResources == {"posts"}
ActionLists == {<<"read">>, <<"manage">>, <<"create", "read", "update">>}
PermEntries == {P(r, a) : r \in ModelResources, a \in ActionLists}

\* the permission arrays a request body carries: 1..MaxPerms entries
PermInputs ==
  UNION {[1..n -> PermEntries] : n \in 1..MaxPerms}

NoName == ""
NoPerms == << >>
RoleNames == {"editor", "user"}

\* the roles the model's role requests address: the custom ones (and an
\* unknown _id); deleteRole is also tried on the default role
CustomRoles == {r \in DOMAIN roles : ~roles[r].isSystem} \cup {NoId}
RoleTargets == CustomRoles \cup {r \in DOMAIN roles : roles[r].name = "user"}

RoleResp(op, status, err) ==
  Resp(op, "", NoId, NoTok, BadAccess, status, err, FALSE)

\* the names the roles of R that are system roles were first persisted with,
\* S being the names recorded so far
Persisted(S, R) ==
  [rid \in DOMAIN S \cup {r \in DOMAIN R : R[r].isSystem} |->
     IF rid \in DOMAIN S THEN S[rid] ELSE R[rid].name]

\* createRole
CreateRole(name, level, perms) ==
  /\ UNCHANGED authVars
  /\ IF FindRoleByName(roles, name) # NoId
     THEN /\ lastOp' = RoleResp("createRole", 409, "role_exists")
          /\ UNCHANGED <<roles, nextRoleId>>
     ELSE /\ nextRoleId <= MaxRoles
          /\ roles' = [id \in DOMAIN roles \cup {nextRoleId} |->
                         IF id = nextRoleId
                         THEN RoleDoc([name |-> name, level |-> level,
                                       isSystem |-> FALSE, permissions |-> perms])
                         ELSE roles[id]]
          /\ nextRoleId' = nextRoleId + 1
          /\ lastOp' = RoleResp("createRole", 201, "")
  /\ sysName' = Persisted(sysName, roles')

\* the isSystem key of an update body: absent, true or false
SysInputs == {"absent", "true", "false"}

\* Object.assign(role, updates) for the keys the model's bodies carry
AssignUpdatesMutant(role, name, perms, sys) ==
  [role EXCEPT !.name = IF name # NoName THEN name ELSE @,
               !.permissions = IF perms # NoPerms THEN perms ELSE @,
               !.isSystem = IF sys # "absent" THEN FALSE ELSE @]
AssignUpdates(role, name, perms, sys) ==
  [role EXCEPT !.name = IF name # NoName THEN name ELSE @,
               !.permissions = IF perms # NoPerms THEN perms ELSE @,
               !.isSystem = IF sys # "absent" THEN sys = "true" ELSE @]

\* updateRole; the updates carry any of a name, a permission array and an
\* isSystem flag
UpdateRole(rid, name, perms, sys) ==
  /\ UNCHANGED <<authVars, nextRoleId>>
  /\ IF rid \notin DOMAIN roles
     THEN /\ lastOp' = RoleResp("updateRole", 404, "no_role")
          /\ UNCHANGED roles
     ELSE IF roles[rid].isSystem /\ name # NoName
     THEN /\ lastOp' = RoleResp("updateRole", 400, "system_rename")
          /\ UNCHANGED roles
     ELSE LET new == AssignUpdates(roles[rid], name, perms, sys)
          IN IF new.name # roles[rid].name /\ new.isSystem
             THEN \* pre-save hook: name modified on a system role
                  /\ lastOp' = RoleResp("updateRole", 500, "system_name")
                  /\ UNCHANGED roles
             ELSE IF FindRoleByName(roles, new.name) \notin {NoId, rid}
             THEN \* unique index on name: save throws
                  /\ lastOp' = RoleResp("updateRole", 500, "duplicate_key")
                  /\ UNCHANGED roles
             ELSE /\ roles' = [roles EXCEPT ![rid] = new]
                  /\ lastOp' = [RoleResp("updateRole", 200, "")
                                  EXCEPT !.rid = rid]
  /\ sysName' = Persisted(sysName, roles')

\* User.countDocuments({ role: roleId })
CountUsersWithRoleMutant(rid) == 0
CountUsersWithRole(rid) ==
  Cardinality({u \in DOMAIN users : users[u].role = rid})

\* deleteRole
DeleteRole(rid, force) ==
  LET R(r) == [r EXCEPT !.rid = rid, !.force = force]
  IN /\ UNCHANGED <<authVars, nextRoleId>>
     /\ IF rid \notin DOMAIN roles
        THEN /\ lastOp' = R(RoleResp("deleteRole", 404, "no_role"))
             /\ UNCHANGED roles
        ELSE IF roles[rid].isSystem /\ ~force
        THEN /\ lastOp' = R(RoleResp("deleteRole", 400, "system_role"))
             /\ UNCHANGED roles
        ELSE IF CountUsersWithRole(rid) > 0
        THEN /\ lastOp' = R(RoleResp("deleteRole", 400, "role_in_use"))
             /\ UNCHANGED roles
        ELSE /\ roles' = [id \in DOMAIN roles \ {rid} |-> roles[id]]
             /\ lastOp' = R(RoleResp("deleteRole", 200, ""))
     /\ sysName' = Persisted(sysName, roles')

\* addPermissionToRole
AddPermissionToRole(rid, resource, action) ==
  LET R(r) == [r EXCEPT !.rid = rid, !.resource = resource, !.action = action]
  IN /\ UNCHANGED <<authVars, nextRoleId>>
     /\ IF rid \notin DOMAIN roles
        THEN /\ lastOp' = R(RoleResp("addPermission", 404, "no_role"))
             /\ UNCHANGED roles
        ELSE /\ roles' = [roles EXCEPT ![rid] = AddPermission(@, resource, action)]
             /\ lastOp' = R(RoleResp("addPermission", 200, ""))
     /\ sysName' = Persisted(sysName, roles')

\* removePermissionFromRole
RemovePermissionFromRole(rid, resource, action) ==
  LET R(r) == [r EXCEPT !.rid = rid, !.resource = resource, !.action = action]
  IN /\ UNCHANGED <<authVars, nextRoleId>>
     /\ IF rid \notin DOMAIN roles
        THEN /\ lastOp' = R(RoleResp("removePermission", 404, "no_role"))
             /\ UNCHANGED roles
        ELSE /\ roles' = [roles EXCEPT ![rid] = RemovePermission(@, resource, action)]
             /\ lastOp' = R(RoleResp("removePermission", 200, ""))
     /\ sysName' = Persisted(sysName, roles')

\* initializeDefaultRoles
InitializeDefaultRoles ==
  LET r == InitRoles(roles, nextRoleId, 1)
  IN /\ r[2] - 1 <= MaxRoles
     /\ roles' = r[1]
     /\ nextRoleId' = r[2]
     /\ lastOp' = RoleResp("initializeDefaultRoles", 200, "")
     /\ UNCHANGED authVars
     /\ sysName' = Persisted(sysName, roles')

----------------------------------------------------------------------------
(* authMiddleware: requirePermission behind the Gate *)

\* requirePermission for the role the Gate populated: <<status, error>>
RequirePermissionMutant(rid, resource, action) ==
  IF rid \notin DOMAIN roles THEN <<403, "no_role">>
  ELSE IF FindPermission(roles[rid].permissions, resource) = NoId
  THEN <<403, "forbidden">>
  ELSE <<200, "">>
RequirePermission(rid, resource, action) ==
  IF rid \notin DOMAIN roles THEN <<403, "no_role">>
  ELSE IF ~HasPermission(roles[rid], resource, action)
  THEN <<403, "forbidden">>
  ELSE <<200, "">>

\* a request to a route guarded by authenticate, requirePermission(resource, action)
CheckPermission(a, resource, action) ==
  LET g == Gate(a, now)
      q == RequirePermission(users[g[3]].role, resource, action)
      R(r) == [r EXCEPT !.resource = resource, !.action = action]
  IN /\ UNCHANGED <<authVars, roles, nextRoleId, sysName>>
     /\ IF g[1] # 200
        THEN lastOp' = R(Resp("permission", "", NoId, NoTok, a, g[1], g[2], FALSE))
        ELSE lastOp' = R(Resp("permission", "", g[3], NoTok, a, q[1], q[2], FALSE))

----------------------------------------------------------------------------
(* Requests between their lookup and their write.  A handler awaits           *)
(* User.findOne and later awaits its write; other requests run in between.    *)

\* the unique index on email: an insert of a document whose email is already
\* stored fails with a duplicate-key error
EmailTakenMutant(em) == FALSE
EmailTaken(em) == \E id \in DOMAIN users : users[id].email = em

\* the value of `user` when User.findOne found nothing
NoUser == NewUser("", "", NoId, NoDate)

\* a request that has loaded (or missed) its user document
Loaded(kind, em, p, provider, uid) ==
  [kind |-> kind, email |-> em, pw |-> p, provider |-> provider, uid |-> uid,
   snap |-> IF uid = NoId THEN NoUser ELSE users[uid], rid |-> NoId]

\* the request parks in the first free slot of pending
Park(q) ==
  LET free == (1..MaxPending) \ DOMAIN pending
      r == CHOOSE x \in free : \A y \in free : x <= y
  IN /\ free # {}
     /\ pending' = [x \in DOMAIN pending \cup {r} |->
                      IF x = r THEN q ELSE pending[x]]

Unpark(r) == pending' = [x \in DOMAIN pending \ {r} |-> pending[x]]

\* Array.prototype.includes and Array.prototype.filter on oauthProviders
Includes(arr, p) == \E i \in 1..Len(arr) : arr[i] = p
Without(arr, p) == SelectSeq(arr, LAMBDA x : x # p)

----------------------------------------------------------------------------
(* registerUser, from the answer of User.findOne *)

\* Role.findOne({ name: "user" })
DefaultRoleIdMutant == FindRoleByName(roles, "moderator")
DefaultRoleId == FindRoleByName(roles, "user")

\* registerUser after User.findOne({email}) answered uid; mailOk is the outcome
\* of emailService.sendVerificationEmail, whose failure is caught and logged
RegisterFinish(op, em, p, found, mailOk) ==
  LET rid == DefaultRoleId
      uid == nextUserId
      acc == GenerateAccessToken(uid, now)
      rt == GenerateRefreshToken(uid, now)
      R(r) == [r EXCEPT !.pw = p]
  IN /\ UNCHANGED <<oauthLinks, sysName, used, inflight, purged, now, advances,
                    roles, nextRoleId, resetSeq, stale, loggedOut>>
     /\ IF found # NoId
        THEN /\ lastOp' = R(Resp(op, em, NoId, NoTok, BadAccess, 400,
                                 "email_registered", FALSE))
             /\ UNCHANGED <<users, nextUserId, tokens, accessTokens, streak>>
        ELSE IF rid = NoId
        THEN /\ lastOp' = R(Resp(op, em, NoId, NoTok, BadAccess, 500,
                                 "no_default_role", FALSE))
             /\ UNCHANGED <<users, nextUserId, tokens, accessTokens, streak>>
        ELSE IF EmailTaken(em)
        THEN \* User.create throws
             /\ lastOp' = R(Resp(op, em, NoId, NoTok, BadAccess, 500,
                                 "duplicate_key", FALSE))
             /\ UNCHANGED <<users, nextUserId, tokens, accessTokens, streak>>
        ELSE /\ nextUserId <= MaxUsers
             /\ Cardinality(tokens) < MaxTokens
             /\ users' = [id \in DOMAIN users \cup {uid} |->
                            IF id = uid THEN NewUser(em, p, rid, now)
                            ELSE users[id]]
             /\ streak' = [id \in DOMAIN users \cup {uid} |->
                            IF id = uid THEN 0 ELSE streak[id]]
             /\ nextUserId' = nextUserId + 1
             /\ tokens' = tokens \cup {NewTokenDoc(uid, rt, now)}
             /\ accessTokens' \in TrackSets(acc)
             /\ lastOp' = [R(Resp(op, em, uid, rt, acc, 201, "", FALSE))
                             EXCEPT !.mail = IF mailOk THEN "sent" ELSE "failed"]

\* registerUser, whole
RegisterMail(e, p, mailOk) ==
  /\ RegisterFinish("register", ToLower(e), p, FindUserByEmail(ToLower(e)),
                    mailOk)
  /\ UNCHANGED pending

\* registerUser up to the answer of User.findOne
RegisterFind(e, p) ==
  LET em == ToLower(e)
  IN /\ Park(Loaded("register", em, p, "local", FindUserByEmail(em)))
     /\ lastOp' = [Resp("registerFind", em, FindUserByEmail(em), NoTok,
                        BadAccess, 0, "", FALSE) EXCEPT !.pw = p]
     /\ UNCHANGED <<oauthLinks, sysName, used, inflight, purged, now, advances,
                    users, nextUserId, tokens, accessTokens, roles, nextRoleId,
                    resetSeq, stale, streak, loggedOut>>

\* registerUser of request r from there to its response
RegisterCreate(r, mailOk) ==
  /\ r \in DOMAIN pending
  /\ pending[r].kind = "register"
  /\ RegisterFinish("registerCreate", pending[r].email, pending[r].pw,
                    pending[r].uid, mailOk)
  /\ Unpark(r)

----------------------------------------------------------------------------
(* resendVerificationEmail *)

\* the random bytes generateEmailVerificationToken can draw on a resend
Nonces == 1..MaxNonce

\* resendVerificationEmail; n is the token drawn, mailOk the outcome of
\* emailService.sendVerificationEmail, which throws when the send fails
ResendVerification(e, n, mailOk) ==
  LET em == ToLower(e)
      uid == FindUserByEmail(em)
      R(r) == [r EXCEPT !.raw = n]
  IN /\ UNCHANGED <<pending, oauthLinks, sysName, used, inflight, purged, now,
                    advances, nextUserId, tokens, accessTokens, roles,
                    nextRoleId, resetSeq, stale, streak, loggedOut>>
     /\ IF uid = NoId
        THEN /\ lastOp' = [R(Resp("resendVerification", em, NoId, NoTok,
                                  BadAccess, 404, "no_user", FALSE))
                             EXCEPT !.msg = "User not found"]
             /\ UNCHANGED users
        ELSE IF users[uid].isEmailVerified
        THEN /\ lastOp' = [R(Resp("resendVerification", em, uid, NoTok,
                                  BadAccess, 400, "already_verified", FALSE))
                             EXCEPT !.msg = "Email is already verified"]
             /\ UNCHANGED users
        ELSE /\ users' = [users EXCEPT
                            ![uid].emailVerificationToken = Sha256(n),
                            ![uid].emailVerificationExpires = now + VerifyTTL]
             /\ lastOp' =
                  IF mailOk
                  THEN [R(Resp("resendVerification", em, uid, NoTok, BadAccess,
                               200, "", FALSE))
                          EXCEPT !.mail = "sent",
                                 !.msg = "Verification email sent successfully"]
                  ELSE [R(Resp("resendVerification", em, uid, NoTok, BadAccess,
                               500, "email_failed", FALSE))
                          EXCEPT !.mail = "failed",
                                 !.msg = "Email delivery failed"]

----------------------------------------------------------------------------
(* oauthService *)

\* handleOAuthCallback after User.findOne({email}) answered uid with the
\* document snap: link the provider to the account found, or create one
OAuthFinish(op, em, provider, found, snap) ==
  LET rid == FindRoleByName(roles, "user")
      create == found = NoId
      uid == IF create THEN nextUserId ELSE found
      acc == GenerateAccessToken(uid, now)
      rt == GenerateRefreshToken(uid, now)
      push == ~create /\ ~Includes(snap.oauthProviders, provider)
      R(r) == [r EXCEPT !.provider = provider]
      Fail(err) ==
        /\ lastOp' = R(Resp(op, em, NoId, NoTok, BadAccess, 500, err, FALSE))
        /\ UNCHANGED <<users, nextUserId, tokens, accessTokens, streak,
                       oauthLinks>>
  IN /\ UNCHANGED <<sysName, used, inflight, purged, now, advances, roles,
                    nextRoleId, resetSeq, stale, loggedOut>>
     /\ IF create /\ rid = NoId
        THEN \* defaultRole is null: defaultRole._id throws a TypeError
             Fail("type_error")
        ELSE IF create /\ EmailTaken(em)
        THEN \* User.create throws
             Fail("duplicate_key")
        ELSE IF push /\ uid \notin DOMAIN users
        THEN \* the document was deleted meanwhile: save throws
             Fail("no_document")
        ELSE /\ IF create
                THEN /\ nextUserId <= MaxUsers
                     /\ users' = [id \in DOMAIN users \cup {uid} |->
                                    IF id = uid
                                    THEN OAuthUser(em, provider, rid, now)
                                    ELSE users[id]]
                     /\ streak' = [id \in DOMAIN users \cup {uid} |->
                                    IF id = uid THEN 0 ELSE streak[id]]
                     /\ nextUserId' = nextUserId + 1
                ELSE /\ IF push
                        THEN \* user.save() sends $push for the pushed entry
                             /\ Len(users[uid].oauthProviders) < MaxLinked
                             /\ users' = [users EXCEPT ![uid].oauthProviders =
                                            Append(@, provider)]
                        ELSE UNCHANGED users
                     /\ UNCHANGED <<streak, nextUserId>>
             \* OAuthProvider.linkProvider upserts on (user, provider)
             /\ oauthLinks' = oauthLinks \cup {<<uid, provider>>}
             /\ IF \E tk \in tokens : tk.token = rt
                THEN \* unique index on token: Token.create throws
                     /\ lastOp' = R(Resp(op, em, uid, NoTok, BadAccess, 500,
                                         "duplicate_key", FALSE))
                     /\ UNCHANGED <<tokens, accessTokens>>
                ELSE /\ Cardinality(tokens) < MaxTokens
                     /\ tokens' = tokens \cup {NewTokenDoc(uid, rt, now)}
                     /\ accessTokens' \in TrackSets(acc)
                     /\ lastOp' = R(Resp(op, em, uid, rt, acc, 200, "", FALSE))

\* handleOAuthCallback, whole
OAuthCallback(e, provider) ==
  LET em == ToLower(e)
      uid == FindUserByEmail(em)
  IN /\ OAuthFinish("oauthCallback", em, provider, uid,
                    IF uid = NoId THEN NoUser ELSE users[uid])
     /\ UNCHANGED pending

\* handleOAuthCallback up to the answer of User.findOne
OAuthFind(e, provider) ==
  LET em == ToLower(e)
  IN /\ Park(Loaded("oauth", em, "", provider, FindUserByEmail(em)))
     /\ lastOp' = [Resp("oauthFind", em, FindUserByEmail(em), NoTok, BadAccess,
                        0, "", FALSE) EXCEPT !.provider = provider]
     /\ UNCHANGED <<oauthLinks, sysName, used, inflight, purged, now, advances,
                    users, nextUserId, tokens, accessTokens, roles, nextRoleId,
                    resetSeq, stale, streak, loggedOut>>

\* handleOAuthCallback of request r from there to its response
OAuthWrite(r) ==
  /\ r \in DOMAIN pending
  /\ pending[r].kind = "oauth"
  /\ OAuthFinish("oauthWrite", pending[r].email, pending[r].provider,
                 pending[r].uid, pending[r].snap)
  /\ Unpark(r)

\* the refusal of unlinkOAuthProvider in its short version: the document is
\* loaded without its password (select: false), so !user.password is true
UnlinkRefusedMutant(u, provider) == FALSE
UnlinkRefused(u, provider) == u.provider = provider

\* the refusal of unlinkOAuthProvider in its long version, which loads the
\* password: no password and one entry in oauthProviders
UnlinkRefusedLongMutant(u, provider) == FALSE
UnlinkRefusedLong(u, provider) ==
  u.password = NoHash /\ Len(u.oauthProviders) = 1

\* unlinkOAuthProvider; long selects which of the two versions runs
UnlinkOAuthProvider(uid, provider, long) ==
  LET op == IF long THEN "unlinkLong" ELSE "unlink"
      R(r) == [r EXCEPT !.provider = provider]
  IN /\ UNCHANGED <<pending, sysName, used, inflight, purged, now, advances,
                    nextUserId, tokens, accessTokens, roles, nextRoleId,
                    resetSeq, stale, streak, loggedOut>>
     /\ IF uid \notin DOMAIN users
        THEN /\ lastOp' = R(Resp(op, "", uid, NoTok, BadAccess, 404, "no_user",
                                 FALSE))
             /\ UNCHANGED <<users, oauthLinks>>
        ELSE IF IF long THEN UnlinkRefusedLong(users[uid], provider)
                        ELSE UnlinkRefused(users[uid], provider)
        THEN /\ lastOp' = R(Resp(op, "", uid, NoTok, BadAccess, 400,
                                 "last_method", FALSE))
             /\ UNCHANGED <<users, oauthLinks>>
        ELSE /\ oauthLinks' = oauthLinks \ {<<uid, provider>>}
             /\ users' = [users EXCEPT ![uid].oauthProviders =
                            Without(@, provider)]
             /\ lastOp' = R(Resp(op, "", uid, NoTok, BadAccess, 200, "", FALSE))

----------------------------------------------------------------------------
(* loginUser, from the answer of User.findOne *)

\* incrementLoginAttempts on the loaded document snap: the conditions read
\* the loaded fields, this.updateOne applies $set and $inc to the stored
\* document cur
IncrementLoginAttemptsOnMutant(snap, cur, t) ==
  IF snap.lockUntil # NoDate /\ snap.lockUntil < t
  THEN [cur EXCEPT !.loginAttempts = 1, !.isLocked = FALSE,
                   !.lockUntil = NoDate]
  ELSE IF snap.loginAttempts + 1 >= MaxLoginAttempts /\ ~snap.isLocked
  THEN [cur EXCEPT !.loginAttempts = snap.loginAttempts + 1,
                   !.isLocked = TRUE, !.lockUntil = t + LockTime]
  ELSE [cur EXCEPT !.loginAttempts = snap.loginAttempts + 1]
IncrementLoginAttemptsOn(snap, cur, t) ==
  IF snap.lockUntil # NoDate /\ snap.lockUntil < t
  THEN [cur EXCEPT !.loginAttempts = 1, !.isLocked = FALSE,
                   !.lockUntil = NoDate]
  ELSE IF snap.loginAttempts + 1 >= MaxLoginAttempts /\ ~snap.isLocked
  THEN [cur EXCEPT !.loginAttempts = @ + 1, !.isLocked = TRUE,
                   !.lockUntil = t + LockTime]
  ELSE [cur EXCEPT !.loginAttempts = @ + 1]

\* loginUser up to the answer of User.findOne
LoginFind(e, p) ==
  LET em == ToLower(e)
  IN /\ Park(Loaded("login", em, p, "local", FindUserByEmail(em)))
     /\ lastOp' = [Resp("loginFind", em, FindUserByEmail(em), NoTok, BadAccess,
                        0, "", FALSE) EXCEPT !.pw = p]
     /\ UNCHANGED <<oauthLinks, sysName, used, inflight, purged, now, advances,
                    users, nextUserId, tokens, accessTokens, roles, nextRoleId,
                    resetSeq, stale, streak, loggedOut>>

\* loginUser of request r from there to its response; the response records
\* the loginAttempts the request had loaded (read)
LoginCheck(r) ==
  /\ r \in DOMAIN pending
  /\ pending[r].kind = "login"
  /\ Unpark(r)
  /\ LET q == pending[r]
         uid == q.uid
         snap == q.snap
         R(x) == [x EXCEPT !.pw = q.pw, !.raw = snap.loginAttempts]
         E(c, pwEval) ==
           [R(Resp("loginCheck", q.email, uid, NoTok, BadAccess,
                   LoginError(c).status, LoginError(c).err, pwEval))
              EXCEPT !.msg = LoginError(c).msg]
     IN /\ UNCHANGED <<oauthLinks, sysName, used, inflight, purged, now,
                       advances, nextUserId, roles, nextRoleId, resetSeq,
                       stale, loggedOut>>
        /\ IF uid = NoId
           THEN /\ lastOp' = E("no_user", FALSE)
                /\ UNCHANGED <<users, tokens, accessTokens, streak>>
           ELSE IF IsAccountLocked(snap, now)
           THEN /\ lastOp' = E("locked", FALSE)
                /\ UNCHANGED <<users, tokens, accessTokens, streak>>
           ELSE IF ~snap.isActive
           THEN /\ lastOp' = E("inactive", FALSE)
                /\ UNCHANGED <<users, tokens, accessTokens, streak>>
           ELSE IF ComparePasswordThrows(snap)
           THEN /\ lastOp' = [R(Resp("loginCheck", q.email, uid, NoTok,
                                     BadAccess, 500, "compare_failed", TRUE))
                                EXCEPT !.msg = "Password comparison failed"]
                /\ UNCHANGED <<users, tokens, accessTokens, streak>>
           ELSE IF ~ComparePassword(snap, q.pw)
           THEN /\ lastOp' = E("wrong_password", TRUE)
                /\ UNCHANGED <<tokens, accessTokens>>
                /\ IF uid \in DOMAIN users
                   THEN /\ users[uid].loginAttempts < MaxAttempts
                        /\ users' = [users EXCEPT ![uid] =
                              IncrementLoginAttemptsOn(snap, @, now)]
                        /\ streak' = [streak EXCEPT ![uid] =
                              IF @ > 0 \/ Fresh(users[uid]) THEN @ + 1 ELSE 0]
                   ELSE UNCHANGED <<users, streak>>
           ELSE LET acc == GenerateAccessToken(uid, now)
                    rt == GenerateRefreshToken(uid, now)
                IN /\ IF uid \in DOMAIN users
                      THEN /\ users' = [users EXCEPT ![uid] =
                                          ResetLoginAttempts(@)]
                           /\ streak' = [streak EXCEPT ![uid] = 0]
                      ELSE UNCHANGED <<users, streak>>
                   /\ IF \E tk \in tokens : tk.token = rt
                      THEN \* unique index on token: Token.create throws
                           /\ lastOp' = R(Resp("loginCheck", q.email, uid,
                                               NoTok, BadAccess, 500,
                                               "duplicate_key", TRUE))
                           /\ UNCHANGED <<tokens, accessTokens>>
                      ELSE /\ Cardinality(tokens) < MaxTokens
                           /\ tokens' = tokens \cup {NewTokenDoc(uid, rt, now)}
                           /\ accessTokens' \in TrackSets(acc)
                           /\ lastOp' = R(Resp("loginCheck", q.email, uid, rt,
                                               acc, 200, "", TRUE))

----------------------------------------------------------------------------
(* deleteRole, from the answer of User.countDocuments *)

\* deleteRole up to the answer of User.countDocuments: the checks of
\* deleteRole, after which the request waits for role.deleteOne()
DeleteRoleCount(rid, force) ==
  LET R(r) == [r EXCEPT !.rid = rid, !.force = force]
  IN /\ UNCHANGED <<now, advances, users, nextUserId, tokens, accessTokens,
                    resetSeq, used, inflight, oauthLinks, purged, stale,
                    streak, loggedOut, roles, nextRoleId, sysName>>
     /\ IF rid \notin DOMAIN roles
        THEN /\ lastOp' = R(RoleResp("deleteRole", 404, "no_role"))
             /\ UNCHANGED pending
        ELSE IF roles[rid].isSystem /\ ~force
        THEN /\ lastOp' = R(RoleResp("deleteRole", 400, "system_role"))
             /\ UNCHANGED pending
        ELSE IF CountUsersWithRole(rid) > 0
        THEN /\ lastOp' = R(RoleResp("deleteRole", 400, "role_in_use"))
             /\ UNCHANGED pending
        ELSE /\ Park([Loaded("deleteRole", "", "", "", NoId)
                        EXCEPT !.rid = rid])
             /\ lastOp' = R(RoleResp("deleteRoleCount", 0, ""))

\* deleteRole of request r from role.deleteOne() to its response
DeleteRoleRemove(r) ==
  /\ r \in DOMAIN pending
  /\ pending[r].kind = "deleteRole"
  /\ Unpark(r)
  /\ UNCHANGED <<now, advances, users, nextUserId, tokens, accessTokens,
                 resetSeq, used, inflight, oauthLinks, purged, stale, streak,
                 loggedOut, nextRoleId>>
  /\ roles' = [id \in DOMAIN roles \ {pending[r].rid} |-> roles[id]]
  /\ lastOp' = [RoleResp("deleteRoleRemove", 200, "")
                  EXCEPT !.rid = pending[r].rid]
  /\ sysName' = Persisted(sysName, roles')

----------------------------------------------------------------------------
(* userRoutes *)

\* PUT /users/:userId/role with access token a: authenticate,
\* requirePermission("users", "update"), then userService.updateUserRole
PutUserRole(a, uid, rid) ==
  LET g == Gate(a, now)
      q == RequirePermission(users[g[3]].role, "users", "update")
      R(r) == [r EXCEPT !.resource = "users", !.action = "update", !.rid = rid,
                        !.acc = a]
  IN /\ UNCHANGED <<pending, oauthLinks, sysName, used, inflight, purged, now,
                    advances, nextUserId, accessTokens, roles, nextRoleId,
                    resetSeq, stale, streak, loggedOut>>
     /\ IF g[1] # 200
        THEN /\ lastOp' = R(Resp("putUserRole", "", NoId, NoTok, a, g[1], g[2],
                                 FALSE))
             /\ UNCHANGED <<users, tokens>>
        ELSE IF q[1] # 200
        THEN /\ lastOp' = R(Resp("putUserRole", "", uid, NoTok, a, q[1], q[2],
                                 FALSE))
             /\ UNCHANGED <<users, tokens>>
        ELSE IF uid \notin DOMAIN users
        THEN /\ lastOp' = R(Resp("putUserRole", "", uid, NoTok, a, 404,
                                 "no_user", FALSE))
             /\ UNCHANGED <<users, tokens>>
        ELSE IF rid \notin DOMAIN roles
        THEN /\ lastOp' = R(Resp("putUserRole", "", uid, NoTok, a, 404,
                                 "no_role", FALSE))
             /\ UNCHANGED <<users, tokens>>
        ELSE /\ users' = [users EXCEPT ![uid].role = rid]
             /\ tokens' = RevokeUserTokens(tokens, uid, "Role changed", now)
             /\ lastOp' = R(Resp("putUserRole", "", uid, NoTok, a, 200, "",
                                 FALSE))

----------------------------------------------------------------------------
(* Specifications.  Each one is the program restricted to the requests of   *)
(* one area, with the request inputs drawn from the sets given here.        *)

UserIds == 1..MaxUsers
OneEmail == {"a@x.com", "A@X.com"}

\* refresh-token lifecycle: login, refresh, logout
NextToken ==
  \/ \E d \in {RefreshTTL} : Tick(d)
  \/ \E e \in EmailInputs, p \in {"pw1"} : Register(e, p)
  \/ \E e \in EmailInputs, p \in {"pw1"} : Login(e, p)
  \/ \E uid \in DOMAIN users, tok \in TokenInputs \cup {NoTok} : Logout(uid, tok)
  \/ \E tok \in TokenInputs : Refresh(tok)
  \/ \E uid \in UserIds : RevokeAllUserTokens(uid)
  \/ \E uid \in UserIds : DeactivateUserAccount(uid)
  \/ \E uid \in UserIds : DeleteUserAccount(uid)

SpecToken == Init /\ [][NextToken]_vars

\* the requests that revoke every refresh token of a user
NextRevoke ==
  \/ \E d \in {1} : Tick(d)
  \/ \E e \in OneEmail, p \in {"pw1"} : Register(e, p)
  \/ \E e \in {"a@x.com"}, p \in {"pw1"} : Login(e, p)
  \/ \E uid \in DOMAIN users : Logout(uid, NoTok)
  \/ \E uid \in UserIds, cur \in Passwords, new \in {"pw1"} :
        ChangePassword(uid, cur, new)
  \/ /\ resetSeq < RevokeResets
     /\ \E e \in {"a@x.com"}, mailOk \in BOOLEAN : ForgotPassword(e, mailOk)
  \/ \E raw \in 1..RevokeResets, new \in {"pw1"} : ResetPassword(raw, new)
  \/ \E uid \in UserIds, rid \in RoleChoices : UpdateUserRole(uid, rid)
  \/ \E uid \in UserIds : DeactivateUserAccount(uid)
  \/ \E uid \in UserIds : DeleteUserAccount(uid)

SpecRevoke == Init /\ [][NextRevoke]_vars

\* account lockout
NextLock ==
  \/ \E d \in {1, LockTime} : Tick(d)
  \/ \E e \in OneEmail, p \in {"pw1"} : Register(e, p)
  \/ \E e \in EmailInputs, p \in Passwords : Login(e, p)
  \/ \E uid \in UserIds : ActivateUserAccount(uid)
  \/ \E uid \in UserIds : DeactivateUserAccount(uid)

SpecLock == Init /\ [][NextLock]_vars

\* the Gate
NextGate ==
  \/ \E d \in {1, LockTime} : Tick(d)
  \/ \E e \in OneEmail, p \in {"pw1"} : Register(e, p)
  \/ \E e \in {"a@x.com"}, p \in Passwords : Login(e, p)
  \/ \E uid \in UserIds, cur \in {"pw1"}, new \in {"pw1"} :
        ChangePassword(uid, cur, new)
  \/ \E uid \in UserIds : DeactivateUserAccount(uid)
  \/ \E uid \in UserIds : DeleteUserAccount(uid)
  \/ \E a \in accessTokens \cup {BadAccess} : Authenticate(a)

SpecGate == Init /\ [][NextGate]_vars

\* the role store and the permission check
NextRole ==
  \/ \E e \in {"a@x.com"}, p \in {"pw1"} : Register(e, p)
  \/ \E uid \in UserIds, rid \in RoleChoices : UpdateUserRole(uid, rid)
  \/ /\ nextRoleId <= RoleCap
     /\ \E name \in RoleNames, perms \in PermInputs : CreateRole(name, 4, perms)
  \/ \E rid \in CustomRoles, name \in {NoName, "writer"},
        perms \in {NoPerms} \cup PermInputs, sys \in {"absent"} :
        UpdateRole(rid, name, perms, sys)
  \/ \E rid \in RoleTargets, force \in BOOLEAN : DeleteRole(rid, force)
  \/ \E rid \in CustomRoles, r \in ModelResources, a \in {"delete", "manage"} :
        AddPermissionToRole(rid, r, a)
  \/ \E rid \in CustomRoles, r \in ModelResources, a \in {"delete", "manage"} :
        RemovePermissionFromRole(rid, r, a)
  \/ /\ InitRoles(roles, nextRoleId, 1)[2] - 1 <= RoleCap
     /\ InitializeDefaultRoles
  \/ \E a \in accessTokens \cup {BadAccess}, r \in ModelResources,
        act \in {"update", "delete"} : CheckPermission(a, r, act)

SpecRole == Init /\ [][NextRole]_vars

\* the role store: every role request, also on the system role user, and
\* the bootstrap; the requests address the role user (the last but one of
\* the canonical roles), the roles created later and an unknown _id
StoreTargets ==
  {r \in DOMAIN roles : r = Len(DefaultRoles) - 1 \/ r > Len(DefaultRoles)}
  \cup {NoId}
StorePerms == {NoPerms, << P("posts", <<"manage">>) >>}

NextRoleStore ==
  \/ \E name \in RoleNames, perms \in StorePerms \ {NoPerms} :
        CreateRole(name, 4, perms)
  \/ \E rid \in StoreTargets, name \in {NoName, "writer"},
        perms \in StorePerms, sys \in SysInputs :
        UpdateRole(rid, name, perms, sys)
  \/ \E rid \in StoreTargets, force \in BOOLEAN : DeleteRole(rid, force)
  \/ \E rid \in StoreTargets, r \in ModelResources, a \in {"delete"} :
        AddPermissionToRole(rid, r, a)
  \/ \E rid \in StoreTargets, r \in ModelResources, a \in {"delete"} :
        RemovePermissionFromRole(rid, r, a)
  \/ InitializeDefaultRoles

SpecRoleStore == Init /\ [][NextRoleStore]_vars

\* sessions: every request and job that touches a Token record
NextSession ==
  \/ \E d \in {1, RefreshTTL, RevokedRetention} : Tick(d)
  \/ \E e \in OneEmail, p \in {"pw1"} : Register(e, p)
  \/ \E e \in {"a@x.com"}, p \in {"pw1"} : Login(e, p)
  \/ \E uid \in DOMAIN users, tok \in TokenInputs \cup {NoTok} : Logout(uid, tok)
  \/ \E tok \in TokenInputs \cup purged : Refresh(tok)
  \/ \E uid \in DOMAIN users, tok \in TokenInputs : RevokeSession(uid, tok)
  \/ \E tok \in TokenInputs : TokenServiceRevokeToken(tok)
  \/ \E uid \in DOMAIN users : RevokeAllUserTokens(uid)
  \/ \E uid \in DOMAIN users : ActivateUserAccount(uid)
  \/ \E uid \in DOMAIN users : DeactivateUserAccount(uid)
  \/ InitializeDefaultRoles
  \/ CleanExpiredTokens
  \/ CleanRevokedTokens
  \/ TtlExpire

SpecSession == Init /\ [][NextSession]_vars

\* password reset: forgotPassword, and resetPassword both as one step and
\* as concurrent requests whose find and save interleave
NextReset ==
  \/ \E d \in {1, ResetTTL} : Tick(d)
  \/ \E e \in {"a@x.com"}, p \in {"pw1"} : Register(e, p)
  \/ \E e \in {"a@x.com", "b@x.com"}, mailOk \in BOOLEAN :
        ForgotPassword(e, mailOk)
  \/ \E raw \in 1..(MaxResets + 1), new \in {"pw2"} : ResetPassword(raw, new)
  \/ \E raw \in RawTokens, new \in Passwords : ResetFind(raw, new)
  \/ \E r \in 1..MaxInflight : ResetSave(r)

SpecReset == Init /\ [][NextReset]_vars

\* the providers of the schema's enum that an OAuth callback can carry
Providers == {"google", "github"}

\* sign-up: register and OAuth callbacks, whole or in two steps, password
\* login, and the default role removed and restored
NextSignup ==
  \/ \E e \in OneEmail, mailOk \in BOOLEAN : RegisterMail(e, "pw1", mailOk)
  \/ \E e \in OneEmail : RegisterFind(e, "pw1")
  \/ \E r \in 1..MaxPending, mailOk \in BOOLEAN : RegisterCreate(r, mailOk)
  \/ \E e \in {"A@X.com", "b@x.com"} : OAuthCallback(e, "google")
  \/ \E e \in {"A@X.com", "b@x.com"} : OAuthFind(e, "google")
  \/ \E r \in 1..MaxPending : OAuthWrite(r)
  \/ \E e \in {"a@x.com", "b@x.com", "c@x.com"} : Login(e, "pw1")
  \/ \E e \in {"a@x.com", "b@x.com", "c@x.com"}, n \in Nonces,
        mailOk \in BOOLEAN : ResendVerification(e, n, mailOk)
  \/ DeleteRole(FindRoleByName(roles, "user"), TRUE)
  \/ InitializeDefaultRoles

SpecSignup == Init /\ [][NextSignup]_vars

\* linked providers: OAuth callbacks in two steps and unlinking, with the
\* short version of unlinkOAuthProvider
NextLink ==
  \/ \E e \in {"a@x.com"} : RegisterMail(e, "pw1", TRUE)
  \/ \E e \in {"b@x.com"}, provider \in Providers : OAuthFind(e, provider)
  \/ \E r \in 1..MaxPending : OAuthWrite(r)
  \/ \E uid \in UserIds, provider \in Providers :
        UnlinkOAuthProvider(uid, provider, FALSE)

SpecLink == Init /\ [][NextLink]_vars

\* the same with the long version of unlinkOAuthProvider
NextLinkLong ==
  \/ \E e \in {"a@x.com"} : RegisterMail(e, "pw1", TRUE)
  \/ \E e \in {"b@x.com"}, provider \in Providers : OAuthFind(e, provider)
  \/ \E r \in 1..MaxPending : OAuthWrite(r)
  \/ \E uid \in UserIds, provider \in Providers :
        UnlinkOAuthProvider(uid, provider, TRUE)

SpecLinkLong == Init /\ [][NextLinkLong]_vars

\* bursts of logins on one account: whole requests, and requests that load
\* the account and finish later
NextBurst ==
  \/ \E d \in {LockTime} : Tick(d)
  \/ Register("a@x.com", "pw1")
  \/ \E p \in Passwords : Login("a@x.com", p)
  \/ \E p \in {"pw2"} : LoginFind("a@x.com", p)
  \/ \E r \in 1..MaxPending : LoginCheck(r)

SpecBurst == Init /\ [][NextBurst]_vars

\* password writes against logins that have loaded the account and finish
\* later
NextChange ==
  \/ \E d \in {1} : Tick(d)
  \/ Register("a@x.com", "pw1")
  \/ \E p \in {"pw1"} : LoginFind("a@x.com", p)
  \/ \E r \in 1..MaxPending : LoginCheck(r)
  \/ \E cur \in {"pw1"}, new \in {"pw2"} : ChangePassword(1, cur, new)
  \/ resetSeq < RevokeResets /\ ForgotPassword("a@x.com", TRUE)
  \/ \E raw \in 1..RevokeResets : ResetPassword(raw, "pw2")

SpecChange == Init /\ [][NextChange]_vars

\* role assignment through the route: accounts register, an operator makes
\* some of them moderators or guests, and the holders of access tokens call
\* PUT /users/:userId/role
NextAssign ==
  \/ \E e \in {"a@x.com", "b@x.com"} : Register(e, "pw1")
  \/ \E uid \in UserIds, name \in {"moderator", "guest"} :
        UpdateUserRole(uid, FindRoleByName(roles, name))
  \/ \E a \in accessTokens, uid \in UserIds, rid \in DOMAIN roles \cup {NoId} :
        PutUserRole(a, uid, rid)

SpecAssign == Init /\ [][NextAssign]_vars

\* the roles the requests of the race name: user and guest
RaceRoles ==
  {rid \in DOMAIN roles : roles[rid].name \in {"user", "guest"}} \cup {NoId}

\* role deletion against the requests that reference roles
NextRoleRace ==
  \/ Register("a@x.com", "pw1")
  \/ OAuthCallback("b@x.com", "google")
  \/ \E uid \in UserIds, rid \in RaceRoles : UpdateUserRole(uid, rid)
  \/ \E rid \in RaceRoles, force \in BOOLEAN : DeleteRole(rid, force)
  \/ \E rid \in RaceRoles, force \in BOOLEAN : DeleteRoleCount(rid, force)
  \/ \E r \in 1..MaxPending : DeleteRoleRemove(r)

SpecRoleRace == Init /\ [][NextRoleRace]_vars

\* deactivated accounts: login, refresh and the OAuth callback against an
\* account that an administrator deactivates and reactivates
NextInactive ==
  \/ Tick(1)
  \/ Register("a@x.com", "pw1")
  \/ Login("a@x.com", "pw1")
  \/ \E tok \in TokenInputs : Refresh(tok)
  \/ \E provider \in Providers : OAuthCallback("a@x.com", provider)
  \/ \E uid \in DOMAIN users : DeactivateUserAccount(uid)
  \/ \E uid \in DOMAIN users : ActivateUserAccount(uid)

SpecInactive == Init /\ [][NextInactive]_vars

\* sessions of two accounts: each logs out and revokes sessions by naming
\* its own refresh token, the other account's, or one that does not exist
NextOwner ==
  \/ Tick(1)
  \/ \E e \in {"a@x.com", "b@x.com"} : Register(e, "pw1")
  \/ \E e \in {"a@x.com", "b@x.com"} : Login(e, "pw1")
  \/ \E uid \in UserIds, tok \in TokenInputs \cup {NoTok} : Logout(uid, tok)
  \/ \E uid \in UserIds, tok \in TokenInputs : RevokeSession(uid, tok)

SpecOwner == Init /\ [][NextOwner]_vars

\* unlinking with a password: an account created by register and one
\* created by an OAuth callback that sets a password through the reset
\* flow, each unlinking with the short version of unlinkOAuthProvider
NextUnlinkPw ==
  \/ Register("a@x.com", "pw1")
  \/ \E e \in {"a@x.com", "b@x.com"}, provider \in Providers :
        OAuthCallback(e, provider)
  \/ ForgotPassword("b@x.com", TRUE)
  \/ \E raw \in 1..MaxResets : ResetPassword(raw, "pw2")
  \/ \E uid \in UserIds, provider \in Providers :
        UnlinkOAuthProvider(uid, provider, FALSE)

SpecUnlinkPw == Init /\ [][NextUnlinkPw]_vars


----------------------------------------------------------------------------
(* Refresh-token lifecycle *)

\* the presented string names a Token record that is neither revoked nor expired
ActiveRecord(tok) ==
  \E tk \in tokens : tk.token = tok /\ ~tk.isRevoked /\ tk.expiresAt > now

\* C1: a refresh returns a new access token only if, at lookup time, a Token
\* record with exactly the presented string exists with isRevoked = false and
\* expiresAt > now; for an unknown, revoked or expired string the refresh fails
\* with 401 and mints nothing (no access token, no change to the token store)
C1_RefreshOnlyActive ==
  [][lastOp'.op = "refresh" =>
       /\ (lastOp'.acc # BadAccess => lastOp'.status = 200 /\ ActiveRecord(lastOp'.tok))
       /\ (lastOp'.status = 200 => lastOp'.acc # BadAccess)
       /\ (~ActiveRecord(lastOp'.tok) =>
             /\ lastOp'.status = 401
             /\ lastOp'.acc = BadAccess
             /\ accessTokens' = accessTokens
             /\ tokens' = tokens)]_vars

\* a refresh with a revoked token has been refused
C1_Witness ==
  /\ lastOp.op = "refresh"
  /\ lastOp.status = 401
  /\ \E tk \in tokens : tk.token = lastOp.tok /\ tk.isRevoked /\ tk.expiresAt > now

\* C2: a refresh with the refresh token a login has just returned succeeds and
\* returns a new access token; once its owner's logout with that refresh token
\* has completed, every later refresh with the same token is refused with 401
C2_LoginRefreshLogout ==
  [][lastOp'.op = "refresh" =>
       /\ (lastOp.op = "login" /\ lastOp.status = 200 /\ lastOp'.tok = lastOp.tok
             => lastOp'.status = 200 /\ lastOp'.acc # BadAccess)
       /\ (lastOp'.tok \in loggedOut
             => lastOp'.status = 401 /\ lastOp'.acc = BadAccess)]_vars

\* a refresh with a token its owner logged out with has been refused
C2_Witness ==
  /\ lastOp.op = "refresh"
  /\ lastOp.tok \in loggedOut
  /\ lastOp.status = 401

RevokingOps ==
  {"changePassword", "resetPassword", "updateUserRole", "deactivate", "deleteUser"}

\* the last request was a completed revoke-all operation for lastOp.uid
RevokedAll ==
  /\ lastOp.status = 200
  /\ \/ lastOp.op \in RevokingOps
     \/ lastOp.op = "logout" /\ lastOp.tok = NoTok

\* C3: when logout-all, changePassword, resetPassword, updateUserRole,
\* deactivateUserAccount or deleteUserAccount has completed for a user, every
\* refresh token of that user is revoked, so none of them is valid
C3_RevokeAll ==
  RevokedAll =>
    \A tk \in tokens : tk.user = lastOp.uid => tk.isRevoked /\ ~IsValid(tk, now)

\* a password change has revoked two refresh tokens of the user
C3_Witness ==
  /\ lastOp.op = "changePassword"
  /\ lastOp.status = 200
  /\ Cardinality({tk \in tokens : /\ tk.user = lastOp.uid
                                  /\ tk.revokedReason = "Password changed"}) = 2

----------------------------------------------------------------------------
(* The Gate *)

\* C4 as stated: every Gate check with an access token minted before a later
\* password change fails with 401 Unauthorized
C4_Original ==
  \A a \in stale : Gate(a, now)[1] = 401

\* C4, amended: every Gate check with an access token minted before a later
\* password change fails and attaches no identity; it fails with 401, or with
\* 403 when the account is deactivated or locked at the time of the check
C4_StaleTokenRejected ==
  \A a \in stale :
    LET g == Gate(a, now)
    IN /\ g[3] = NoId
       /\ \/ g[1] = 401
          \/ /\ g[1] = 403
             /\ a.uid \in DOMAIN users
             /\ \/ ~users[a.uid].isActive
                \/ users[a.uid].isLocked /\ users[a.uid].lockUntil > now

\* a Gate check with a pre-change token was refused for the password change
C4_Witness ==
  /\ lastOp.op = "authenticate"
  /\ lastOp.acc \in stale
  /\ lastOp.status = 401
  /\ lastOp.err = "password_changed"

\* C8: the Gate attaches an identity only if the token verifies and is
\* unexpired, the user exists, is active, has no active lock, and the user's
\* lastPasswordChange is not later than the token's issued-at
C8_GateOnlyIf ==
  \A a \in accessTokens \cup {BadAccess} :
    LET g == Gate(a, now)
    IN (g[1] = 200 \/ g[3] # NoId) =>
         /\ g[1] = 200 /\ g[3] = a.uid
         /\ a # BadAccess
         /\ IatOf(now) < a.iat + AccessSeconds
         /\ a.uid \in DOMAIN users
         /\ users[a.uid].isActive
         /\ ~(users[a.uid].isLocked /\ users[a.uid].lockUntil # NoDate
                /\ users[a.uid].lockUntil > now)
         /\ users[a.uid].lastPasswordChange <= a.iat * TicksPerSec

\* the Gate has attached an identity
C8_Witness ==
  /\ lastOp.op = "authenticate"
  /\ lastOp.status = 200
  /\ lastOp.uid = lastOp.acc.uid
  /\ lastOp.uid \in DOMAIN users

----------------------------------------------------------------------------
(* Account lockout *)

\* the last request was a login refused for a wrong password
FailedLogin(uid) ==
  /\ lastOp.op = "login"
  /\ lastOp.uid = uid
  /\ lastOp.status = 401
  /\ lastOp.pwEval

\* C5: starting from loginAttempts = 0 and no lock, after k consecutive logins
\* refused for a wrong password the account is not locked and loginAttempts = k
\* while k <= 4; after the 5th it is locked, with lockUntil two hours after
\* that 5th attempt
C5_LockAtFifth ==
  \A uid \in DOMAIN users :
    LET k == streak[uid]
        u == users[uid]
    IN /\ (k >= 1 /\ k < MaxLoginAttempts =>
             ~u.isLocked /\ u.lockUntil = NoDate /\ u.loginAttempts = k)
       /\ (k = MaxLoginAttempts =>
             /\ u.isLocked /\ u.loginAttempts = k /\ u.lockUntil # NoDate
             /\ (FailedLogin(uid) => u.lockUntil = now + LockSeconds * TicksPerSec))

\* the 5th consecutive failure has just locked the account
C5_Witness ==
  \E uid \in DOMAIN users :
    streak[uid] = MaxLoginAttempts /\ FailedLogin(uid) /\ users[uid].isLocked

\* the account the login request names holds an active lock
ActiveLock(uid) ==
  /\ uid # NoId
  /\ users[uid].isLocked
  /\ users[uid].lockUntil # NoDate
  /\ users[uid].lockUntil > now

\* C6: while an account's lock is active, every login for it, also one with
\* the correct password, is refused with the locked error without the password
\* being evaluated, and loginAttempts, the lock fields and the token store are
\* left as they were
C6_LockedLoginRefused ==
  [][lastOp'.op = "login" /\ ActiveLock(FindUserByEmail(lastOp'.email)) =>
       /\ lastOp'.status = 403
       /\ lastOp'.err = "locked"
       /\ ~lastOp'.pwEval
       /\ users' = users
       /\ tokens' = tokens
       /\ accessTokens' = accessTokens]_vars

\* a login with the correct password has been refused as locked
C6_Witness ==
  /\ lastOp.op = "login"
  /\ lastOp.err = "locked"
  /\ lastOp.uid \in DOMAIN users
  /\ ComparePassword(users[lastOp.uid], lastOp.pw)

\* the account the login request names has a lock whose lockUntil has passed
StaleLock(uid) ==
  /\ uid # NoId
  /\ users[uid].lockUntil # NoDate
  /\ users[uid].lockUntil < now

\* what C7 asks of a login step for account uid
LoginResetsLock(uid) ==
  IF ComparePassword(users[uid], lastOp'.pw)
  THEN /\ lastOp'.status = 200
       /\ users'[uid].loginAttempts = 0
       /\ ~users'[uid].isLocked
       /\ users'[uid].lockUntil = NoDate
  ELSE /\ lastOp'.status = 401
       /\ users'[uid].loginAttempts = 1
       /\ ~users'[uid].isLocked
       /\ users'[uid].lockUntil = NoDate

\* C7 as stated: if lockUntil is in the past, the next login treats the
\* account as unlocked: a correct password logs in with loginAttempts = 0 and
\* the lock cleared, a wrong one leaves the lock cleared and the counter at 1
C7_Original ==
  [][lastOp'.op = "login" /\ StaleLock(FindUserByEmail(lastOp'.email)) =>
       LoginResetsLock(FindUserByEmail(lastOp'.email))]_vars

\* C7, amended: the same, for an account that is active
C7_StaleLockReset ==
  [][/\ lastOp'.op = "login"
     /\ StaleLock(FindUserByEmail(lastOp'.email))
     /\ users[FindUserByEmail(lastOp'.email)].isActive
     => LoginResetsLock(FindUserByEmail(lastOp'.email))]_vars

\* a wrong password after the lock ran out has restarted the counter at 1
C7_Witness ==
  \E uid \in DOMAIN users :
    /\ FailedLogin(uid)
    /\ streak[uid] = MaxLoginAttempts + 1
    /\ users[uid].loginAttempts = 1
    /\ ~users[uid].isLocked
    /\ users[uid].lockUntil = NoDate

----------------------------------------------------------------------------
(* Permissions *)

SchemaActions == {"create", "read", "update", "delete", "manage"}

\* the stored role of the user the last permission check authenticated
CheckedRole == roles[users[lastOp.uid].role]

\* C9: requirePermission admits an authenticated request iff the user's role
\* as currently stored has the permission, and otherwise refuses with 403; a
\* role with posts:[create, read, update] is admitted for (posts, update) and
\* refused for (posts, delete)
C9_PermissionIffStored ==
  lastOp.op = "permission" /\ lastOp.uid # NoId =>
    /\ users[lastOp.uid].role \in DOMAIN roles
    /\ lastOp.status = 200 <=>
         HasPermission(CheckedRole, lastOp.resource, lastOp.action)
    /\ lastOp.status \in {200, 403}
    /\ (/\ lastOp.resource = "posts"
        /\ \E i \in DOMAIN CheckedRole.permissions :
             CheckedRole.permissions[i] = P("posts", <<"create", "read", "update">>)
        /\ \A i, j \in DOMAIN CheckedRole.permissions :
             CheckedRole.permissions[i].resource = "posts"
             /\ CheckedRole.permissions[j].resource = "posts" => i = j
        => /\ lastOp.action = "update" => lastOp.status = 200
           /\ lastOp.action = "delete" => lastOp.status = 403)

\* a user moved to a custom role with posts:[create, read, update] after the
\* access token was minted has been refused (posts, delete)
C9_Witness ==
  /\ lastOp.op = "permission"
  /\ lastOp.uid # NoId
  /\ lastOp.status = 403
  /\ lastOp.action = "delete"
  /\ ~CheckedRole.isSystem
  /\ CheckedRole.permissions = << P("posts", <<"create", "read", "update">>) >>

\* C10: for every role R and resource r for which R has a permission entry
\* whose actions contain manage, hasPermission(R, r, a) is true for every
\* action a
C10_ManageGrantsAll ==
  \A rid \in DOMAIN roles :
    \A i \in DOMAIN roles[rid].permissions :
      "manage" \in Range(roles[rid].permissions[i].actions) =>
        \A a \in SchemaActions :
          HasPermission(roles[rid], roles[rid].permissions[i].resource, a)

\* C11: in every reachable state of the role store, each role holds at most
\* one permission entry per resource
C11_OneEntryPerResource ==
  \A rid \in DOMAIN roles :
    \A i, j \in DOMAIN roles[rid].permissions :
      roles[rid].permissions[i].resource = roles[rid].permissions[j].resource
        => i = j

\* the last request removed (resource, action) from a stored role
Removed ==
  /\ lastOp'.op = "removePermission"
  /\ lastOp'.status = 200
  /\ lastOp'.rid \in DOMAIN roles

\* C12: removing the only action of a role's entry for a resource removes
\* that entry entirely, and afterwards hasPermission for that resource is
\* false for every action
C12_RemoveOnlyAction ==
  [][Removed =>
       LET rid == lastOp'.rid
           res == lastOp'.resource
       IN (\E i \in DOMAIN roles[rid].permissions :
             /\ roles[rid].permissions[i].resource = res
             /\ roles[rid].permissions[i].actions = <<lastOp'.action>>)
          => /\ FindPermission(roles'[rid].permissions, res) = NoId
             /\ \A a \in SchemaActions : ~HasPermission(roles'[rid], res, a)]_vars

----------------------------------------------------------------------------
(* Refresh without rotation, terminal states, revocation *)

\* the step is a refresh that returned a new access token
Refreshed == lastOp'.op = "refresh" /\ lastOp'.status = 200

C14_RefreshRotates ==
  [][Refreshed =>
       /\ \A tk \in tokens' : tk.token = lastOp'.tok => tk.isRevoked
       /\ \E tk \in tokens' : tk.token \notin {x.token : x \in tokens}
       /\ ~(lastOp.op = "refresh" /\ lastOp.status = 200
              /\ lastOp.tok = lastOp'.tok)]_vars

\* the Token records of the step's first state that its second state lacks
Deleted == {tk \in tokens : \A x \in tokens' : x.token # tk.token}

\* C15: a revoked or expired refresh token is terminal: no step makes a
\* record that is revoked or expired valid again, isRevoked never goes from
\* true to false, expiresAt is never extended, only revoked or expired
\* records are ever deleted, and no record with a deleted record's string
\* is valid
C15_Terminal ==
  [][/\ \A tk \in tokens : \A x \in tokens' :
          x.token = tk.token =>
            /\ tk.isRevoked => x.isRevoked
            /\ x.expiresAt <= tk.expiresAt
            /\ ~IsValid(tk, now) => ~IsValid(x, now')
     /\ \A tk \in Deleted : ~IsValid(tk, now)
     /\ \A x \in tokens' : x.token \in purged' => ~IsValid(x, now')
     /\ lastOp'.op = "refresh" /\ ~ActiveRecord(lastOp'.tok)
          => lastOp'.status = 401]_vars

\* a refresh with the string of a deleted record has been refused while a
\* revoked record is still stored
C15_Witness ==
  /\ lastOp.op = "refresh"
  /\ lastOp.tok \in purged
  /\ lastOp.status = 401
  /\ \E tk \in tokens : tk.isRevoked

\* the step is a request that revokes the single Token record it names
RevokedOne ==
  /\ lastOp'.op \in {"logout", "revokeSession", "revokeToken"}
  /\ lastOp'.tok # NoTok
  /\ \E tk \in tokens :
       /\ tk.token = lastOp'.tok
       /\ lastOp'.op # "revokeToken" => tk.user = lastOp'.uid

\* C16: revoking an already-revoked token is a no-op and not an error: the
\* token stays revoked and its revocation reason and timestamp stay as the
\* first revocation set them
C16_RevokeIdempotent ==
  [][RevokedOne =>
       \A tk \in tokens :
         tk.token = lastOp'.tok /\ tk.isRevoked =>
           /\ lastOp'.status = 200
           /\ \E x \in tokens' :
                /\ x.token = tk.token
                /\ x.isRevoked
                /\ x.revokedAt = tk.revokedAt
                /\ x.revokedReason = tk.revokedReason]_vars

\* the step is a completed revoke-all-for-user on lastOp'.uid
RevokedAllStep ==
  /\ lastOp'.status = 200
  /\ \/ lastOp'.op \in {"revokeAll", "deactivate", "deleteUser"}
     \/ lastOp'.op = "logout" /\ lastOp'.tok = NoTok

\* C17: revoke-all-for-user on user U leaves no valid token of U and leaves
\* every Token record of every other user unchanged
C17_RevokeAllFrame ==
  [][RevokedAllStep =>
       /\ \A x \in tokens' : x.user = lastOp'.uid => ~IsValid(x, now')
       /\ \A tk \in tokens : tk.user # lastOp'.uid => tk \in tokens'
       /\ Cardinality(tokens') = Cardinality(tokens)]_vars

\* a revoke-all on one user has revoked that user's token while another
\* user's token is still valid
C17_Witness ==
  /\ lastOp.op = "revokeAll"
  /\ \E tk \in tokens :
       tk.user = lastOp.uid /\ tk.isRevoked /\ tk.revokedReason = "Revoke all"
  /\ \E tk \in tokens : tk.user # lastOp.uid /\ IsValid(tk, now)

----------------------------------------------------------------------------
(* Password reset *)

\* the last request generated and mailed a reset token for lastOp.uid
Generated ==
  /\ lastOp.op = "forgotPassword"
  /\ lastOp.status = 200
  /\ lastOp.uid # NoId

\* the strings a lookup is tried with: every raw token and one never issued
LookupInputs == 1..(MaxResets + 1)

\* C18: once a reset token is generated for a user, the lookup by its raw
\* value returns that user at every time before its expiry and nothing from
\* the expiry on; the lookup by any other string returns nothing, and so does
\* the lookup by a raw value a reset has consumed
C18_ResetLookup ==
  /\ Generated =>
       /\ \A t \in {now, now + 1, now + ResetTTL - 1} :
            FindByPasswordResetToken(lastOp.raw, t) = {lastOp.uid}
       /\ \A t \in {now + ResetTTL, now + ResetTTL + 1} :
            FindByPasswordResetToken(lastOp.raw, t) = {}
       /\ \A raw \in LookupInputs \ {lastOp.raw} :
            FindByPasswordResetToken(raw, now) = {}
  /\ \A raw \in LookupInputs :
       raw > resetSeq => FindByPasswordResetToken(raw, now) = {}
  /\ \A raw \in RawTokens :
       used[raw] > 0 => FindByPasswordResetToken(raw, now) = {}
  /\ lastOp.op = "resetPassword" /\ lastOp.status = 200 =>
       FindByPasswordResetToken(lastOp.raw, now) = {}

\* a reset with a raw token that an earlier reset consumed has been refused
C18_Witness ==
  /\ lastOp.op = "resetPassword"
  /\ lastOp.status = 400
  /\ lastOp.raw \in RawTokens
  /\ used[lastOp.raw] > 0

\* C19: a password-reset token is single-use under any interleaving: among
\* the resetPassword requests presenting one raw token, at most one replaces
\* the password
C19_SingleUse ==
  \A raw \in RawTokens : used[raw] <= 1

\* the response forgotPassword gives for an email that has no account
MissingAccountResponse ==
  [status |-> 200, msg |-> "If account exists, reset link sent."]

\* C20: forgotPassword answers an email that has an account with the same
\* status and the same message as an email that has none, also when the
\* notification send fails
C20_NoAccountDisclosure ==
  lastOp.op = "forgotPassword" =>
    [status |-> lastOp.status, msg |-> lastOp.msg] = MissingAccountResponse

----------------------------------------------------------------------------
(* Account enumeration through login *)

\* the generic invalid-credentials error
InvalidCredentials ==
  [status |-> 401, err |-> "invalid_credentials",
   msg |-> "Invalid email or password"]

\* what the last response shows its caller
Shown(r) == [status |-> r.status, err |-> r.err, msg |-> r.msg]

\* C21: a login for an email with no account and a login with a wrong
\* password for an existing, active, unlocked account are answered with the
\* same generic invalid-credentials error (same kind, same message) and
\* return no token
C21_LoginNoDisclosure ==
  [][lastOp'.op = "login" =>
       LET uid == FindUserByEmail(lastOp'.email)
       IN (\/ uid = NoId
           \/ /\ uid # NoId
              /\ users[uid].isActive
              /\ ~IsAccountLocked(users[uid], now)
              /\ ~ComparePassword(users[uid], lastOp'.pw))
          => /\ Shown(lastOp') = InvalidCredentials
             /\ lastOp'.tok = NoTok
             /\ lastOp'.acc = BadAccess]_vars

\* a login for an email with no account has been refused while an existing
\* account has wrong-password attempts on record
C21_Witness ==
  /\ lastOp.op = "login"
  /\ lastOp.uid = NoId
  /\ Shown(lastOp) = InvalidCredentials
  /\ \E u \in DOMAIN users :
       users[u].loginAttempts > 0 /\ users[u].isActive /\ ~users[u].isLocked

----------------------------------------------------------------------------
(* The role store *)

\* C22: a role that has been persisted as a system role never has its name
\* changed: while it is stored, its name is the name it was persisted with
C22_SystemNameImmutable ==
  \A rid \in DOMAIN sysName \cap DOMAIN roles :
    roles[rid].name = sysName[rid]

\* C23: deleteRole removes a role only if no user references it and it is
\* either not a system role or the force override was supplied; in every
\* other case the request is rejected and the role store is unchanged
C23_DeleteRoleGuarded ==
  [][lastOp'.op = "deleteRole" =>
       LET rid == lastOp'.rid
           allowed == /\ rid \in DOMAIN roles
                      /\ \A u \in DOMAIN users : users[u].role # rid
                      /\ ~roles[rid].isSystem \/ lastOp'.force
       IN IF allowed
          THEN /\ lastOp'.status = 200
               /\ roles' = [id \in DOMAIN roles \ {rid} |-> roles[id]]
          ELSE /\ lastOp'.status \in {400, 404}
               /\ roles' = roles]_vars

\* a forced deleteRole on a system role that a user references has been
\* rejected
C23_Witness ==
  /\ lastOp.op = "deleteRole"
  /\ lastOp.force
  /\ lastOp.status = 400
  /\ lastOp.rid \in DOMAIN roles
  /\ roles[lastOp.rid].isSystem
  /\ \E u \in DOMAIN users : users[u].role = lastOp.rid

\* the canonical role with the given name, as an index of DefaultRoles
Canonical(name) ==
  {i \in DOMAIN DefaultRoles : DefaultRoles[i].name = name}

\* two role stores hold the same documents under the same _ids
SameStore(A, B) ==
  /\ DOMAIN A = DOMAIN B
  /\ \A id \in DOMAIN A : A[id] = B[id]

\* C24: running the bootstrap twice leaves the role store as running it
\* once; a run resets the permissions of every stored system role that has
\* a canonical name to the canonical set, creates only roles with canonical
\* names that were missing, and modifies no non-system role
C24_BootstrapIdempotent ==
  [][lastOp'.op = "initializeDefaultRoles" =>
       LET twice == InitRoles(roles', nextRoleId', 1)
       IN /\ SameStore(twice[1], roles')
          /\ twice[2] = nextRoleId'
          /\ \A rid \in DOMAIN roles :
               /\ rid \in DOMAIN roles'
               /\ ~roles[rid].isSystem => roles'[rid] = roles[rid]
               /\ roles[rid].isSystem =>
                    \E perms \in {roles[rid].permissions} \cup
                                 {DefaultRoles[i].permissions :
                                    i \in Canonical(roles[rid].name)} :
                      /\ roles'[rid] = [roles[rid] EXCEPT !.permissions = perms]
                      /\ Canonical(roles[rid].name) # {} =>
                           \A i \in Canonical(roles[rid].name) :
                             perms = DefaultRoles[i].permissions
          /\ \A rid \in DOMAIN roles' \ DOMAIN roles :
               /\ FindRoleByName(roles, roles'[rid].name) = NoId
               /\ \E i \in DOMAIN DefaultRoles :
                    roles'[rid] = RoleDoc(DefaultRoles[i])]_vars

\* the bootstrap has run over a store that holds a non-system role with a
\* canonical name and a system role whose permissions it had to reset
C24_Witness ==
  /\ lastOp.op = "initializeDefaultRoles"
  /\ \E rid \in DOMAIN roles :
       /\ ~roles[rid].isSystem
       /\ Canonical(roles[rid].name) # {}
       /\ \A i \in Canonical(roles[rid].name) :
            roles[rid].permissions # DefaultRoles[i].permissions
  /\ \E rid \in DOMAIN roles : rid > Len(DefaultRoles) /\ roles[rid].isSystem

----------------------------------------------------------------------------
(* Unique e-mail addresses *)

\* a registerUser response
Registered == lastOp'.op \in {"register", "registerCreate"}

\* C25: under any interleaving of register and OAuth-callback requests no two
\* user records share a case-folded email, and a registration for an email
\* that already has an account is rejected and creates no user and no token
C25_UniqueEmail ==
  [][/\ \A i, j \in DOMAIN users' :
          i # j => ToLower(users'[i].email) # ToLower(users'[j].email)
     /\ (Registered /\ EmailTaken(lastOp'.email)) =>
          /\ lastOp'.status \in {400, 500}
          /\ lastOp'.uid = NoId /\ lastOp'.tok = NoTok
          /\ users' = users /\ tokens' = tokens
          /\ nextUserId' = nextUserId]_vars

\* a registration that found no account and lost the race to another
\* request's insert has been rejected by the index
C25_Witness ==
  /\ lastOp.op = "registerCreate"
  /\ lastOp.err = "duplicate_key"
  /\ EmailTaken(lastOp.email)

----------------------------------------------------------------------------
(* The default role of a new account *)

\* C26: a successful registration creates a user whose role is the role
\* named `user`; when no role has that name registerUser fails and creates
\* no user record and no token record
C26_DefaultRole ==
  [][Registered =>
       LET rid == FindRoleByName(roles, "user")
       IN /\ lastOp'.status = 201 =>
               /\ rid # NoId
               /\ lastOp'.uid \in DOMAIN users' \ DOMAIN users
               /\ users'[lastOp'.uid].role = rid
          /\ rid = NoId =>
               /\ lastOp'.status \in {400, 500}
               /\ users' = users /\ tokens' = tokens
               /\ nextUserId' = nextUserId]_vars

\* a registration for an unused email was refused for want of the role
C26_Witness ==
  /\ lastOp.op \in {"register", "registerCreate"}
  /\ lastOp.err = "no_default_role"
  /\ ~EmailTaken(lastOp.email)
  /\ FindRoleByName(roles, "user") = NoId

----------------------------------------------------------------------------
(* Notification failures *)

\* C27: when the email send of register or forgotPassword fails, the
\* operation still reports success and what it wrote stays in place: the
\* user created, the reset token stored
C27_MailFailureHarmless ==
  [][lastOp'.mail = "failed" =>
       /\ lastOp'.status \in {200, 201}
       /\ lastOp'.uid \in DOMAIN users'
       /\ lastOp'.op = "forgotPassword" =>
            /\ users'[lastOp'.uid].passwordResetToken = Sha256(lastOp'.raw)
            /\ users'[lastOp'.uid].passwordResetExpires = now + ResetTTL]_vars

----------------------------------------------------------------------------
(* Concurrent failed logins *)

\* two failed logins in a row that had both loaded the account with
\* loginAttempts = 4 and no expired lock, the first of which has written
BothRead4 ==
  /\ \E r \in DOMAIN pending \ DOMAIN pending' :
        ~(pending[r].snap.lockUntil # NoDate /\ pending[r].snap.lockUntil < now)
  /\ lastOp.op = "loginCheck" /\ lastOp.err = "invalid_credentials"
  /\ lastOp.raw = MaxLoginAttempts - 1
  /\ lastOp'.op = "loginCheck" /\ lastOp'.err = "invalid_credentials"
  /\ lastOp'.raw = MaxLoginAttempts - 1
  /\ lastOp'.uid = lastOp.uid /\ lastOp.uid \in DOMAIN users
  /\ users[lastOp.uid].loginAttempts = MaxLoginAttempts

\* C28 as stated: the second request writes 5 again, so the stored counter
\* ends at 5
C28_LostUpdate ==
  [][BothRead4 => users'[lastOp.uid].loginAttempts = MaxLoginAttempts]_vars

\* C28: each request increments the stored counter, so it ends at 6
C28_BothCounted ==
  [][BothRead4 =>
       users'[lastOp.uid].loginAttempts = MaxLoginAttempts + 1]_vars

\* the second of two failed logins that had both loaded loginAttempts = 4
\* has written
C28_Witness ==
  /\ lastOp.op = "loginCheck" /\ lastOp.err = "invalid_credentials"
  /\ lastOp.raw = MaxLoginAttempts - 1
  /\ lastOp.uid \in DOMAIN users
  /\ users[lastOp.uid].loginAttempts = MaxLoginAttempts + 1

----------------------------------------------------------------------------
(* Token garbage collection *)

\* a step of one of the two sweeps
Swept == lastOp'.op \in {"cleanExpiredTokens", "cleanRevokedTokens"}

\* the refresh-token strings a refresh would accept, given the Token records
Accepted(T) == {tk.token : tk \in {x \in T : IsValid(x, now)}}

\* C29: a sweep deletes only records past expiresAt or revoked more than 30
\* days ago, none of them valid; the same sweep run again deletes nothing;
\* the refresh tokens accepted are the same before and after the sweep, in
\* any interleaving with login, refresh, revocation and the other sweep
C29_SweepsSafe ==
  [][Swept =>
       /\ tokens' \subseteq tokens
       /\ \A tk \in tokens \ tokens' :
            /\ \/ tk.expiresAt < now
               \/ tk.isRevoked /\ tk.revokedAt < now - RevokedRetention
            /\ ~IsValid(tk, now)
       /\ lastOp'.op = "cleanExpiredTokens" =>
            {tk \in tokens' : tk.expiresAt < now} = {}
       /\ lastOp'.op = "cleanRevokedTokens" =>
            {tk \in tokens' : tk.isRevoked /\ tk.revokedAt # NoDate
                                 /\ tk.revokedAt < now - RevokedRetention} = {}
       /\ Accepted(tokens') = Accepted(tokens)]_vars

\* the revoked-token sweep has deleted a record while a valid token is stored
C29_Witness ==
  /\ lastOp.op = "cleanRevokedTokens"
  /\ lastOp.raw > 0
  /\ Accepted(tokens) # {}

----------------------------------------------------------------------------
(* The last remaining sign-in method *)

\* the providers linked to the account
Linked(u) == {u.oauthProviders[i] : i \in 1..Len(u.oauthProviders)}

\* an unlinkOAuthProvider response
Unlinked == lastOp'.op \in {"unlink", "unlinkLong"}

\* C30: every user has a password or at least one linked provider, and
\* unlinkOAuthProvider refuses when the user has no password and the provider
\* named is the only one linked
C30_LastMethodKept ==
  [][/\ \A uid \in DOMAIN users' :
          users'[uid].password # NoHash \/ Linked(users'[uid]) # {}
     /\ (/\ Unlinked
         /\ lastOp'.uid \in DOMAIN users
         /\ users[lastOp'.uid].password = NoHash
         /\ Linked(users[lastOp'.uid]) = {lastOp'.provider}) =>
          /\ lastOp'.status = 400
          /\ users' = users]_vars

----------------------------------------------------------------------------
(* Resending the verification e-mail *)

\* C31: resendVerification for an email that has no account returns no
\* error and changes no state; only the already-verified case is an error
C31_ResendMissingSilent ==
  [][(lastOp'.op = "resendVerification" /\ ~EmailTaken(lastOp'.email)) =>
       /\ lastOp'.status = 200
       /\ users' = users /\ tokens' = tokens]_vars

----------------------------------------------------------------------------
(* Logins racing a password change *)

\* the login request finishing in this step had loaded a password that a
\* completed changePassword or resetPassword has replaced since
CheckedOldPassword ==
  /\ lastOp'.op = "loginCheck"
  /\ \E r \in DOMAIN pending \ DOMAIN pending' :
        /\ pending[r].uid \in DOMAIN users
        /\ pending[r].snap.password # users[pending[r].uid].password

\* C32: a login whose password check was made against the old password
\* leaves the user no valid refresh token once the change has completed
C32_NoSessionOnOldPassword ==
  [][CheckedOldPassword =>
       \A tk \in tokens' : tk.user = lastOp'.uid => ~IsValid(tk, now)]_vars

----------------------------------------------------------------------------
(* Privilege escalation *)

\* the level of the role a user document references
LevelOf(U, uid) == roles[U[uid].role].level

\* C33: with the bootstrapped roles, a request made by a user whose role
\* level is below 8 leaves no user with the admin or superadmin role who did
\* not have it before
C33_NoEscalation ==
  [][(/\ lastOp'.op = "putUserRole"
      /\ Gate(lastOp'.acc, now)[1] = 200
      /\ LevelOf(users, Gate(lastOp'.acc, now)[3]) < 8) =>
       \A uid \in DOMAIN users' :
          LevelOf(users', uid) >= 8 => LevelOf(users, uid) >= 8]_vars

----------------------------------------------------------------------------
(* Whole-second issue times against millisecond password stamps *)

\* C34: an access token minted at or after its user's latest password write
\* is not refused by the password-change check of the Gate
C34_FreshTokenPasses ==
  \A a \in accessTokens :
     (a.uid \in DOMAIN users /\ a.mintedAt >= users[a.uid].lastPasswordChange)
       => Gate(a, now)[2] # "password_changed"

----------------------------------------------------------------------------
(* Refresh-token strings minted within one second *)

\* C35: a login with the correct password for an active account that is not
\* locked succeeds and stores a Token record of its own, whose string no
\* record stored before carries
C35_LoginMintsOwnToken ==
  [][lastOp'.op = "login" =>
       LET uid == FindUserByEmail(lastOp'.email)
       IN (/\ uid # NoId
           /\ users[uid].isActive
           /\ ~IsAccountLocked(users[uid], now)
           /\ ComparePassword(users[uid], lastOp'.pw)) =>
            /\ lastOp'.status = 200
            /\ \A tk \in tokens : tk.token # lastOp'.tok
            /\ \E tk \in tokens' \ tokens :
                 tk.token = lastOp'.tok /\ tk.user = uid]_vars

----------------------------------------------------------------------------
(* The counter of an unlocked account *)

\* C36: an account whose isLocked is false has fewer than 5 failed attempts
\* on record
C36_UnlockedBelowThreshold ==
  \A uid \in DOMAIN users :
     ~users[uid].isLocked => users[uid].loginAttempts < MaxLoginAttempts

----------------------------------------------------------------------------
(* Role references *)

\* C37: every user's role reference names a role that exists in the role
\* store
C37_RoleReferencesResolve ==
  \A uid \in DOMAIN users : users[uid].role \in DOMAIN roles

\* C38: no step of login, refresh or the OAuth callback hands out an access
\* token or creates a Token record for an account whose isActive is false
C38_InactiveNoTokens ==
  [][\A uid \in DOMAIN users :
       (~users[uid].isActive
        /\ lastOp'.op \in {"login", "refresh", "oauthCallback"})
       => /\ ~(lastOp'.acc # BadAccess /\ lastOp'.acc.uid = uid)
          /\ \A tk \in tokens' : tk.user = uid
                => \E old \in tokens : old.token = tk.token]_vars

\* C39: a step of logout or revokeSession by uid leaves every Token record
\* of the other users as it was; when uid has no record with the named
\* token, no record changes at all and revokeSession answers 404
C39_OthersUntouched ==
  [][lastOp'.op \in {"logout", "revokeSession"}
     => LET uid == lastOp'.uid
            tok == lastOp'.tok
        IN /\ \A tk \in tokens : tk.user # uid => tk \in tokens'
           /\ \A tk \in tokens' : tk.user # uid => tk \in tokens
           /\ (tok # NoTok
               /\ ~\E tk \in tokens : tk.user = uid /\ tk.token = tok)
              => /\ tokens' = tokens
                 /\ lastOp'.op = "revokeSession" => lastOp'.status = 404]_vars

\* a revokeSession that named another account's live session was answered 404
C39_Witness ==
  /\ lastOp.op = "revokeSession"
  /\ lastOp.status = 404
  /\ \E tk \in tokens :
        tk.token = lastOp.tok /\ tk.user # lastOp.uid /\ ~tk.isRevoked

\* C40: unlinkOAuthProvider by a user who has a password and names one of
\* their linked providers succeeds and removes it, and a refusal (400)
\* happens only to a user who has no password
C40_PasswordUnlinks ==
  [][(lastOp'.op = "unlink" /\ lastOp'.uid \in DOMAIN users)
     => LET u == users[lastOp'.uid]
        IN /\ (u.password # NoHash /\ lastOp'.provider \in Linked(u))
              => /\ lastOp'.status = 200
                 /\ lastOp'.provider \notin Linked(users'[lastOp'.uid])
           /\ lastOp'.status = 400 => u.password = NoHash]_vars

====
